---- MODULE Spec2Model ----
(***************************************************************************)
(* A model of the resume field-extraction service (main.py,                *)
(* main_config.py): the reference-list synchronisation                     *)
(* (save_url_as_json_async, remove_duplicates), the skill and designation  *)
(* matchers, the phone extractor, record assembly                          *)
(* (check_titles_and_extract_info) and the extract_text pipeline.          *)
(*                                                                         *)
(* A Python str is a tuple of one-character strings; a JSON object is a    *)
(* tuple of <<key, value>> pairs in insertion order.  A value that may be  *)
(* None (and a file that may not exist) is a sequence of length at most    *)
(* one: None is <<>>, and Some(x) is <<x>>.                                *)
(***************************************************************************)
EXTENDS Integers, Sequences, FiniteSets, TLC

VARIABLES
    \* ---- the extract_text pipeline and the reference caches
    cache,          \* output_file -> its bytes, or NoFile
    pc,             \* position of the running extract_text call
    lines,          \* extracted_data["content"] of the current request
    text_file,      \* content of resume-data/<name>/<name>.txt, or NoFile
    acquired_skill_data,
    acquired_designation_data,
    attempts,       \* fetches made by the designation polling loop (saturating)
    record_file,    \* content of <text file>_extracted_info.json, or NoFile
    call,           \* the last save_url_as_json_async call: what it saw and did
    outcome,        \* how the current extract_text call ended
    requests,       \* number of /extract requests started
    response,       \* what extract_data answered to the last request
    \* ---- direct calls of the pure functions
    fn,             \* the function applied, "none" before the call
    text_content,   \* its text argument
    json_data,      \* its reference-list argument (a list, or None)
    json_aux,       \* check_titles_and_extract_info's second list
    result,         \* what it returned
    \* ---- invocations of save_url_as_json_async followed step by step
    tasks,          \* invocation -> where it is and what it holds
    last_ok         \* what the last 200 response of a series of calls held

pipeVars == <<cache, pc, lines, text_file, acquired_skill_data,
              acquired_designation_data, attempts, record_file, call,
              outcome, requests, response, tasks, last_ok>>
fnVars == <<fn, text_content, json_data, json_aux, result>>
vars == <<pipeVars, fnVars>>

\* Optional values: Python's None, and a path at which no file exists
None == <<>>
NoFile == <<>>
Some(x) == <<x>>
IsNone(o) == Len(o) = 0
The(o) == o[1]

(***************************************************************************)
(* Characters.  Ascii lists the ASCII characters the model uses in         *)
(* code-point order; Ord gives a character's rank in it, which is all that *)
(* str comparison and sorted() depend on.                                  *)
(***************************************************************************)
NL == "\n"

Ascii ==
    <<NL, " ", "+", "-", ".", "/",
      "0", "1", "2", "3", "4", "5", "6", "7", "8", "9", ":", "<", ">", "@",
      "A", "B", "C", "D", "E", "F", "G", "H", "I", "J", "K", "L", "M",
      "N", "O", "P", "Q", "R", "S", "T", "U", "V", "W", "X", "Y", "Z",
      "_",
      "a", "b", "c", "d", "e", "f", "g", "h", "i", "j", "k", "l", "m",
      "n", "o", "p", "q", "r", "s", "t", "u", "v", "w", "x", "y", "z",
      "|">>

\* a character's rank in Ascii
Ord(c) == CHOOSE i \in DOMAIN Ascii : Ascii[i] = c

Digits == {"0", "1", "2", "3", "4", "5", "6", "7", "8", "9"}

\* characters outside \x00-\x7F are written by their code point
EnDash == "U+2013"
LigatureFi == "U+FB01"
Bullet == "U+2022"
PrivateDot == "U+F0A7"
NonAscii == {EnDash, LigatureFi, Bullet, PrivateDot}
IsAscii(c) == c \notin NonAscii
UpperLetters ==
    <<"A", "B", "C", "D", "E", "F", "G", "H", "I", "J", "K", "L", "M",
      "N", "O", "P", "Q", "R", "S", "T", "U", "V", "W", "X", "Y", "Z">>
LowerLetters ==
    <<"a", "b", "c", "d", "e", "f", "g", "h", "i", "j", "k", "l", "m",
      "n", "o", "p", "q", "r", "s", "t", "u", "v", "w", "x", "y", "z">>
UpperCase ==
    {"A", "B", "C", "D", "E", "F", "G", "H", "I", "J", "K", "L", "M",
     "N", "O", "P", "Q", "R", "S", "T", "U", "V", "W", "X", "Y", "Z"}
LowerCase ==
    {"a", "b", "c", "d", "e", "f", "g", "h", "i", "j", "k", "l", "m",
     "n", "o", "p", "q", "r", "s", "t", "u", "v", "w", "x", "y", "z"}

\* \d
IsDigit(c) == c \in Digits
\* \w for str patterns: Unicode letters count, so the ligature does
IsWord(c) == c \in Digits \cup UpperCase \cup LowerCase \cup {"_", LigatureFi}
\* \s, and what str.strip() removes
IsSpace(c) == c \in {" ", NL}

\* re.IGNORECASE compares characters after case folding
Lower(c) ==
    IF c \in UpperCase
    THEN LowerLetters[CHOOSE i \in DOMAIN UpperLetters : UpperLetters[i] = c]
    ELSE c
LowerStr(s) == [i \in DOMAIN s |-> Lower(s[i])]

(***************************************************************************)
(* Strings.                                                                *)
(***************************************************************************)
Min(S) == CHOOSE x \in S : \A y \in S : x <= y
Max(S) == CHOOSE x \in S : \A y \in S : x >= y

\* s[i:j] with 1-based inclusive positions; empty when j < i
Slice(s, i, j) == IF j < i THEN <<>> ELSE SubSeq(s, i, j)

\* old occurs in s starting at position i
OccursAt(s, old, i) ==
    /\ i >= 1
    /\ i + Len(old) - 1 <= Len(s)
    /\ \A k \in 1..Len(old) : s[i + k - 1] = old[k]

\* old in s
Contains(s, old) == \E i \in 1..(Len(s) + 1) : OccursAt(s, old, i)

\* str.replace(old, new): every non-overlapping occurrence, left to right
RECURSIVE ReplaceFrom(_, _, _, _)
ReplaceFrom(s, old, new, i) ==
    IF i > Len(s) THEN <<>>
    ELSE IF Len(old) > 0 /\ OccursAt(s, old, i)
         THEN new \o ReplaceFrom(s, old, new, i + Len(old))
         ELSE <<s[i]>> \o ReplaceFrom(s, old, new, i + 1)

RECURSIVE Interleave(_, _)
Interleave(s, new) ==
    IF s = <<>> THEN new ELSE new \o <<Head(s)>> \o Interleave(Tail(s), new)

\* an empty old matches before every character and at the end
Replace(s, old, new) ==
    IF Len(old) = 0 THEN Interleave(s, new) ELSE ReplaceFrom(s, old, new, 1)

\* str.strip()
Strip(s) ==
    LET keep == {i \in DOMAIN s : ~IsSpace(s[i])}
    IN  IF keep = {} THEN <<>> ELSE SubSeq(s, Min(keep), Max(keep))

\* a < b for str: lexicographic by code point
StrLess(a, b) ==
    \E k \in 1..(Len(b)) :
        /\ k <= Len(a) + 1
        /\ \A j \in 1..(k - 1) : a[j] = b[j]
        /\ \/ k = Len(a) + 1
           \/ (k <= Len(a) /\ Ord(a[k]) < Ord(b[k]))

\* sorted(S) for a set of str
RECURSIVE SortedStrings(_)
SortedStrings(S) ==
    IF S = {} THEN <<>>
    ELSE LET m == CHOOSE x \in S : \A y \in S \ {x} : StrLess(x, y)
         IN  <<m>> \o SortedStrings(S \ {m})

Range(s) == {s[i] : i \in DOMAIN s}

RECURSIVE Concat(_)
Concat(ss) == IF ss = <<>> THEN <<>> ELSE Head(ss) \o Concat(Tail(ss))

(***************************************************************************)
(* Results of calls: a value, or the exception that left the function.     *)
(***************************************************************************)
Return(v) == [exc |-> "", val |-> <<v>>]
Raise(e) == [exc |-> e, val |-> <<>>]
Raised(r) == r.exc # ""
Value(r) == r.val[1]

(***************************************************************************)
(* JSON objects (dict): a tuple of <<key, value>> pairs, keys distinct.    *)
(***************************************************************************)
K_id == <<"_", "i", "d">>
K_title == <<"t", "i", "t", "l", "e">>
K_designation == <<"d", "e", "s", "i", "g", "n", "a", "t", "i", "o", "n">>

Keys(item) == {item[i][1] : i \in DOMAIN item}
\* item[key], for a key the item has
Get(item, key) == item[CHOOSE i \in DOMAIN item : item[i][1] = key][2]
\* item.get(key, default)
GetOr(item, key, default) == IF key \in Keys(item) THEN Get(item, key) ELSE default

\* json.dumps(item, sort_keys=True): the pairs in ascending key order
RECURSIVE DumpsSorted(_)
DumpsSorted(item) ==
    IF item = <<>> THEN <<>>
    ELSE LET i == CHOOSE i \in DOMAIN item :
                    \A j \in DOMAIN item \ {i} : StrLess(item[i][1], item[j][1])
             rest == [k \in 1..(Len(item) - 1) |->
                          IF k < i THEN item[k] ELSE item[k + 1]]
         IN  <<item[i]>> \o DumpsSorted(rest)

\* hashlib.md5(json.dumps(item, sort_keys=True).encode()).hexdigest().
\* MD5 is taken to be collision-free on the modelled entries: the digest
\* is identified with the canonical serialisation it is computed from.
ItemHash(item) == DumpsSorted(item)

(***************************************************************************)
(* remove_duplicates (main.py 286-305)                                     *)
(***************************************************************************)
RECURSIVE RemoveDuplicatesLoop(_, _, _, _)
RemoveDuplicatesLoop(data, i, unique_items, acc) ==
    IF i > Len(data) THEN acc
    ELSE LET item_hash == ItemHash(data[i])
         IN  IF item_hash \notin unique_items
             THEN RemoveDuplicatesLoop(data, i + 1,
                                       unique_items \cup {item_hash},
                                       Append(acc, data[i]))
             ELSE RemoveDuplicatesLoop(data, i + 1, unique_items, acc)

\* a variant that keeps the last occurrence of an entry, not the first
remove_duplicates_keep_last(data) ==
    LET keep == {i \in DOMAIN data :
                    \A j \in (i + 1)..Len(data) :
                        ItemHash(data[j]) # ItemHash(data[i])}
    IN  [k \in 1..Cardinality(keep) |->
            data[CHOOSE i \in keep : Cardinality({j \in keep : j < i}) = k - 1]]

\* remove_duplicates(data)
remove_duplicates(data) == RemoveDuplicatesLoop(data, 1, {}, <<>>)

(***************************************************************************)
(* The matchers (main.py 120-198)                                          *)
(***************************************************************************)
\* \b at position p of s: between s[p-1] and s[p], p in 1..Len(s)+1
WordBoundary(s, p) ==
    LET before == p > 1 /\ p - 1 <= Len(s) /\ IsWord(s[p - 1])
        after == p >= 1 /\ p <= Len(s) /\ IsWord(s[p])
    IN  before # after

\* r"\b{}\b".format(re.escape(title)) with re.IGNORECASE matches at i
TitleMatchAt(text, title, i) ==
    /\ WordBoundary(text, i)
    /\ OccursAt(LowerStr(text), LowerStr(title), i)
    /\ WordBoundary(text, i + Len(title))

\* the positions at which the title pattern matches
MatchStarts(text, title) ==
    {i \in 1..(Len(text) + 1) : TitleMatchAt(text, title, i)}

\* re.search(...) is not None
TitleFound(text, title) == MatchStarts(text, title) # {}

\* min(match.start() for match in re.finditer(...)): 0-based
FirstStart(text, title) == Min(MatchStarts(text, title)) - 1

\* [x for x in s if keep]
RECURSIVE FilterFound(_, _)
FilterFound(titles, text) ==
    IF titles = <<>> THEN <<>>
    ELSE (IF TitleFound(text, Head(titles)) THEN <<Head(titles)>> ELSE <<>>)
         \o FilterFound(Tail(titles), text)

\* check_and_collect_skills(text_content, json_data); json_data optional
check_and_collect_skills(text, data) ==
    IF IsNone(data) \/ The(data) = <<>>
    THEN Return(None)
    ELSE IF \E i \in DOMAIN The(data) : K_title \notin Keys(The(data)[i])
         THEN Raise("KeyError")
         ELSE LET titles == [i \in DOMAIN The(data) |-> Get(The(data)[i], K_title)]
              IN  Return(Some(FilterFound(titles, text)))

\* sorted(seq, key=...): stable, ascending by key; seq holds <<key, x>>
RECURSIVE StableSort(_)
StableSort(keyed) ==
    IF keyed = <<>> THEN <<>>
    ELSE LET rest == StableSort(SubSeq(keyed, 1, Len(keyed) - 1))
             x == keyed[Len(keyed)]
             \* x goes after everything whose key is not greater
             n == Cardinality({i \in DOMAIN rest : rest[i][1] <= x[1]})
         IN  SubSeq(rest, 1, n) \o <<x>> \o SubSeq(rest, n + 1, Len(rest))

\* the sort key of a matching designation (main.py 179-191)
SortKey(text, designation) == FirstStart(text, designation)

\* a variant that does not sort: the matches stay in list order
SortedDesignationsUnsorted(text, matching) == matching

\* sorted(matching_designations, key=...)
SortedDesignations(text, matching) ==
    LET keyed == [i \in DOMAIN matching |->
                      <<SortKey(text, matching[i]), matching[i]>>]
        sorted == StableSort(keyed)
    IN  [i \in DOMAIN sorted |-> sorted[i][2]]

\* check_and_collect_designation_ids(text_content, json_data)
check_and_collect_designation_ids(text, data) ==
    IF IsNone(data) THEN Raise("TypeError")
    ELSE IF \E i \in DOMAIN The(data) : K_designation \notin Keys(The(data)[i])
         THEN Raise("KeyError")
         ELSE LET all_designations ==
                      [i \in DOMAIN The(data) |-> Get(The(data)[i], K_designation)]
                  matching_designations == FilterFound(all_designations, text)
                  sorted_designations ==
                      SortedDesignations(text, matching_designations)
              IN  Return([sorted_designations |-> sorted_designations,
                          result_title |->
                              IF sorted_designations # <<>>
                              THEN sorted_designations[1] ELSE <<>>])


(***************************************************************************)
(* extract_phone (main_config.py 31, 35, 74-103)                           *)
(***************************************************************************)
\* s[i..i+n-1] are n digits
DigitsAt(s, i, n) ==
    /\ i >= 1
    /\ i + n - 1 <= Len(s)
    /\ \A k \in i..(i + n - 1) : IsDigit(s[k])

PincodeLen == 6
PhoneLen == 10
MaxCountryCode == 3

\* PINCODE_PATTERN = \b\d{6}\b matches at i
PincodeAt(s, i) ==
    /\ WordBoundary(s, i)
    /\ DigitsAt(s, i, PincodeLen)
    /\ WordBoundary(s, i + PincodeLen)

\* re.search(PINCODE_PATTERN, text): the leftmost match, optional
SearchPincode(s) ==
    LET starts == {i \in 1..Len(s) : PincodeAt(s, i)}
    IN  IF starts = {} THEN None
        ELSE Some(SubSeq(s, Min(starts), Min(starts) + PincodeLen - 1))

\* PHONE_PATTERN = (\+?\d{0,3}[-\s]?\d{10}) matches at i taking p plus
\* signs, k country-code digits and sp separators
PhoneAt(s, i, p, k, sp) ==
    /\ p = 1 => (i <= Len(s) /\ s[i] = "+")
    /\ DigitsAt(s, i + p, k) \/ k = 0
    /\ sp = 1 => (i + p + k <= Len(s)
                  /\ (s[i + p + k] = "-" \/ IsSpace(s[i + p + k])))
    /\ DigitsAt(s, i + p + k + sp, PhoneLen)

\* the match the backtracking engine returns at start i: the greedy
\* quantifiers are tried longest first, the earlier one having priority
PhoneChoices(s, i) ==
    {c \in (0..1) \X (0..MaxCountryCode) \X (0..1) : PhoneAt(s, i, c[1], c[2], c[3])}

PhoneBest(s, i) ==
    CHOOSE c \in PhoneChoices(s, i) :
        \A d \in PhoneChoices(s, i) :
            \/ c[1] > d[1]
            \/ (c[1] = d[1] /\ c[2] > d[2])
            \/ (c[1] = d[1] /\ c[2] = d[2] /\ c[3] >= d[3])

\* re.search(PHONE_PATTERN, text).group(1), optional: the leftmost start
SearchPhone(s) ==
    LET starts == {i \in 1..Len(s) : PhoneChoices(s, i) # {}}
    IN  IF starts = {} THEN None
        ELSE LET i == Min(starts)
                 c == PhoneBest(s, i)
             IN  Some(SubSeq(s, i, i + c[1] + c[2] + c[3] + PhoneLen - 1))

\* lines 98-101: the rendering of the stripped match
RenderPhone(phone_number) ==
    IF Len(phone_number) > PhoneLen
    THEN SubSeq(phone_number, 1, Len(phone_number) - PhoneLen) \o <<" ">>
         \o SubSeq(phone_number, Len(phone_number) - PhoneLen + 1,
                   Len(phone_number))
    ELSE phone_number

\* lines 84-88
WithoutPincode(text, pincode) ==
    IF IsNone(pincode) THEN text ELSE Replace(text, The(pincode), <<>>)

\* lines 93-103
PhoneOf(match) ==
    IF IsNone(match) THEN None
    ELSE Some(RenderPhone(
             Replace(Replace(Replace(The(match), <<"-">>, <<>>),
                             <<" ">>, <<>>), <<NL>>, <<>>)))

\* extract_phone(text_content): optional str
extract_phone(text) ==
    PhoneOf(SearchPhone(WithoutPincode(text, SearchPincode(text))))


(***************************************************************************)
(* save_url_as_json_async (main.py 216-283)                                *)
(*                                                                         *)
(* The bytes of a response body or of a file are the JSON value they       *)
(* encode together with their formatting: "compact" as a server sends it,  *)
(* "indent2" as json.dump(..., indent=2) writes it.                        *)
(***************************************************************************)
Bytes(fmt, data) == [fmt |-> fmt, data |-> data]
\* json.load(file) and response.json(): parsing drops the formatting
JsonLoad(bytes) == bytes.data
\* json.dump(data, file, indent=2)
JsonDumpIndent2(data) == Bytes("indent2", data)
\* hashlib.md5(bytes).hexdigest(), taken to be collision-free
Md5(bytes) == <<"md5", bytes>>

\* what client.get(url) can do: raise httpx.RequestError, or answer
TransportError == [kind |-> "RequestError", status_code |-> 0, content |-> <<>>]
Answer(status_code, content) ==
    [kind |-> "response", status_code |-> status_code, content |-> <<content>>]

\* a variant of the fallback that uses the cache file up
LoadFallbackOnce(file) ==
    IF file # NoFile
    THEN [file |-> NoFile, writes |-> 1,
          ret |-> Some(remove_duplicates(JsonLoad(The(file))))]
    ELSE [file |-> file, writes |-> 0, ret |-> None]

\* lines 236-246: the fallback of a response that is not a 200
LoadFallback(file) ==
    IF file # NoFile
    THEN [file |-> file, writes |-> 0,
          ret |-> Some(remove_duplicates(JsonLoad(The(file))))]
    ELSE [file |-> file, writes |-> 0, ret |-> None]

\* a variant of the 200 path that returns the parsed body as it is
Save200AsReceived(file, content) ==
    [file |-> Some(content), writes |-> 1, ret |-> Some(JsonLoad(content))]

\* lines 249-280: the 200 path, run without interleaving
Save200(file, content) ==
    LET written == Some(content)                       \* 249-250
        downloaded_hash == Some(Md5(content))          \* 251-253
        local_hash == IF written # NoFile              \* 255-262
                      THEN Some(Md5(The(written))) ELSE None
    IN  IF downloaded_hash = local_hash                \* 264-270
        THEN [file |-> written, writes |-> 1,
              ret |-> Some(remove_duplicates(JsonLoad(The(written))))]
        ELSE LET data == JsonLoad(content)             \* 272-280
             IN  [file |-> Some(JsonDumpIndent2(data)), writes |-> 2,
                  ret |-> Some(remove_duplicates(data))]

\* one call: the file it leaves, the writes it made, what it returns
save_url_as_json_async(file, resp) ==
    IF resp.kind = "RequestError"                      \* 281-283
    THEN [file |-> file, writes |-> 0, ret |-> None]
    ELSE IF resp.status_code # 200                     \* 234
         THEN LoadFallback(file)
         ELSE Save200(file, The(resp.content))


(***************************************************************************)
(* extract_email (main_config.py 33, 60-71)                                *)
(***************************************************************************)
Letters == UpperCase \cup LowerCase
\* [A-Za-z0-9._%+-]
EmailLocalChars == Letters \cup Digits \cup {".", "_", "%", "+", "-"}
\* [A-Za-z0-9.-]
EmailDomainChars == Letters \cup Digits \cup {".", "-"}
\* [A-Z|a-z]
EmailTldChars == Letters \cup {"|"}
MinTld == 2

\* the length of the longest run of characters of class starting at i
RunLen(s, i, class) ==
    IF i > Len(s) \/ i < 1 THEN 0
    ELSE LET stops == {k \in i..Len(s) : s[k] \notin class}
         IN  IF stops = {} THEN Len(s) - i + 1 ELSE Min(stops) - i

\* EMAIL_PATTERN from i: the last position of the match, or 0 when it does
\* not match from i.  The local part runs up to the "@"; the greedy domain
\* is as long as it can be, then the greedy last label.
EmailEndAt(s, i) ==
    LET a == i + RunLen(s, i, EmailLocalChars)
    IN  IF ~WordBoundary(s, i) \/ a = i \/ a > Len(s) THEN 0
        ELSE IF s[a] # "@" THEN 0
        ELSE LET D == RunLen(s, a + 1, EmailDomainChars)
                 cs == {c \in (1..(D - 1)) \X (MinTld..Len(s)) :
                           /\ s[a + c[1] + 1] = "."
                           /\ c[2] <= RunLen(s, a + c[1] + 2, EmailTldChars)
                           /\ WordBoundary(s, a + c[1] + 2 + c[2])}
             IN  IF cs = {} THEN 0
                 ELSE LET c == CHOOSE c \in cs :
                                  \A d \in cs :
                                      c[1] > d[1] \/ (c[1] = d[1] /\ c[2] >= d[2])
                      IN  a + c[1] + 1 + c[2]

\* the positions at which EMAIL_PATTERN matches
EmailStarts(s) == {i \in DOMAIN s : EmailEndAt(s, i) > 0}

\* the leftmost match, optional
EmailFrom(s, starts) ==
    IF starts = {} THEN None
    ELSE Some(SubSeq(s, Min(starts), EmailEndAt(s, Min(starts))))

\* extract_email(text): EMAIL_PATTERN.search(text)[0], optional
extract_email(s) == EmailFrom(s, EmailStarts(s))

(***************************************************************************)
(* extract_experience_duration (main_config.py 39-41, 146-165)             *)
(***************************************************************************)
SpaceChars == {" ", NL}

\* the unit alternatives, in the order the pattern tries them
DurationUnits ==
    << <<"y", "e", "a", "r", "s">>, <<"y", "e", "a", "r">>,
       <<"m", "o", "n", "t", "h", "s">>, <<"m", "o", "n", "t", "h">> >>

\* [yY]ears|[yY]ear|[mM]onths? at position q: the length matched, or 0
UnitLenAt(s, q) ==
    LET fits == {u \in DOMAIN DurationUnits :
                    /\ q + Len(DurationUnits[u]) - 1 <= Len(s)
                    /\ Lower(s[q]) = DurationUnits[u][1]
                    /\ \A k \in 2..Len(DurationUnits[u]) :
                          s[q + k - 1] = DurationUnits[u][k]}
    IN  IF fits = {} THEN 0 ELSE Len(DurationUnits[Min(fits)])

\* the position after the white space at p (greedy \s*)
AfterSpaces(s, p) == p + RunLen(s, p, SpaceChars)
\* the position after (?:\.\d+)? at p
AfterFraction(s, p) ==
    IF p <= Len(s) /\ s[p] = "." /\ RunLen(s, p + 1, Digits) > 0
    THEN p + 1 + RunLen(s, p + 1, Digits) ELSE p
\* the position after (?:\+)? at p
AfterPlus(s, p) == IF p <= Len(s) /\ s[p] = "+" THEN p + 1 ELSE p

\* the unit at q, group 1 having ended before g
DurationUnitAt(s, g, q) ==
    IF UnitLenAt(s, q) = 0 THEN <<0, 0>>
    ELSE <<g - 1, q + UnitLenAt(s, q) - 1>>

\* \s*(?:\+)?\s* and the unit, group 1 having ended before g
DurationTail(s, g) ==
    DurationUnitAt(s, g, AfterSpaces(s, AfterPlus(s, AfterSpaces(s, g))))

\* EXPERIENCE_DURATION_PATTERN from i: <<end of group 1, end of match>>,
\* or <<0, 0>> when it does not match from i
DurationAt(s, i) ==
    IF RunLen(s, i, Digits) = 0 THEN <<0, 0>>
    ELSE DurationTail(s, AfterFraction(s, i + RunLen(s, i, Digits)))

\* a run of digits without its leading zeros: the numeral of its value
DigitsValue(ds) ==
    LET keep == {k \in DOMAIN ds : ds[k] # "0"}
    IN  IF keep = {} THEN <<"0">> ELSE SubSeq(ds, Min(keep), Len(ds))

\* float(numeral), for numerals a float holds exactly: the numeral of the
\* whole part and the fraction digits without their trailing zeros
Float(numeral) ==
    LET dots == {k \in DOMAIN numeral : numeral[k] = "."}
        whole == IF dots = {} THEN numeral ELSE SubSeq(numeral, 1, Min(dots) - 1)
        frac == IF dots = {} THEN <<>>
                ELSE SubSeq(numeral, Min(dots) + 1, Len(numeral))
        keep == {k \in DOMAIN frac : frac[k] # "0"}
    IN  [whole |-> DigitsValue(whole),
         frac |-> IF keep = {} THEN <<>> ELSE SubSeq(frac, 1, Max(keep))]

Zero == [whole |-> <<"0">>, frac |-> <<>>]

\* lines 160-163, for the match m found at i
DurationMatch(s, i, m) ==
    [numeric_value |-> Float(SubSeq(s, i, m[1])),
     duration_string |-> Replace(SubSeq(s, i, m[2]), <<NL>>, <<" ">>)]

\* the positions at which EXPERIENCE_DURATION_PATTERN matches
DurationStarts(s) == {i \in DOMAIN s : DurationAt(s, i) # <<0, 0>>}

\* lines 158-165: the leftmost match, or the default (0, "0")
DurationFirst(s, starts) ==
    IF starts = {}
    THEN [numeric_value |-> Zero, duration_string |-> <<"0">>]
    ELSE DurationMatch(s, Min(starts), DurationAt(s, Min(starts)))

\* extract_experience_duration(text): (numeric_value, duration_string)
extract_experience_duration(s) == DurationFirst(s, DurationStarts(s))

(***************************************************************************)
(* remove_unrecognized_characters (main.py 367-378), str.title()           *)
(***************************************************************************)
\* re.sub(r"[^\x00-\x7F]+", " ", text)
RECURSIVE SubNonAscii(_, _)
SubNonAscii(s, i) ==
    IF i > Len(s) THEN <<>>
    ELSE IF IsAscii(s[i]) THEN <<s[i]>> \o SubNonAscii(s, i + 1)
         ELSE <<" ">> \o SubNonAscii(s, i + RunLen(s, i, NonAscii))

\* remove_unrecognized_characters(text), text optional: None for a falsy text
remove_unrecognized_characters(text) ==
    IF IsNone(text) \/ The(text) = <<>> THEN None
    ELSE Some(Strip(Replace(SubNonAscii(The(text), 1), <<NL>>, <<" ">>)))

Upper(c) ==
    IF c \in LowerCase
    THEN UpperLetters[CHOOSE i \in DOMAIN LowerLetters : LowerLetters[i] = c]
    ELSE c

\* str.title(): a letter after a letter is lowered, any other letter raised
Title(s) ==
    [i \in DOMAIN s |->
        IF s[i] \in Letters
        THEN IF i > 1 /\ s[i - 1] \in Letters THEN Lower(s[i]) ELSE Upper(s[i])
        ELSE s[i]]


(***************************************************************************)
(* The section patterns (main_config.py 47-54).  An alias is the tuple of  *)
(* its pattern characters; AnyChar is the unescaped "." of the pattern.    *)
(***************************************************************************)
AnyChar == "ANY"

\* alias matches s at position i
AliasAt(s, alias, i) ==
    /\ i >= 1
    /\ i + Len(alias) - 1 <= Len(s)
    /\ \A k \in 1..Len(alias) :
          IF alias[k] = AnyChar THEN s[i + k - 1] # NL
          ELSE s[i + k - 1] = alias[k]

\* the start alternatives of EXPERIENCE_TEXT_PATTERN, in pattern order
ExperienceStarts ==
    << <<"E", "X", "P", "E", "R", "I", "E", "N", "C", "E">>,
       <<"E", "x", "p", "e", "r", "i", "e", "n", "c", "e">>,
       <<"P", "r", "o", "j", "e", "c", "t", "s", " ", "U", "n", "d", "e",
         "r", "t", "a", "k", "e", "n", ":">>,
       <<"P", "R", "O", "J", "E", "C", "T", "S", " ", "U", "N", "D", "E",
         "R", "T", "A", "K", "E", "N">>,
       <<"P", "r", "o", "j", "e", "c", "t", "s", ":">>,
       <<"P", "R", "O", "J", "E", "C", "T", "S">>,
       <<"P", "R", "O", "J", "E", "C", "T", "S", ":">>,
       <<"W", "o", "r", "k", " ", "E", "x", "p", "e", "r", "i", "e", "n",
         "c", "e", ":">>,
       <<"E", "M", "P", "L", "O", "Y", "M", "E", "N", "T", " ", "H", "I",
         "S", "T", "O", "R", "Y">>,
       <<"P", "r", "o", "j", "e", "c", "t", "s">>,
       <<"P", "r", "o", "j", "e", "c", "t", " ", "D", "e", "t", "a", "i",
         "l", "s", ":">>,
       <<"W", "O", "R", "K", " ", "E", "X", "P", "E", "R", "I", "E", "N",
         "C", "E", " ", ":">>,
       <<"P", "r", "o", "j", "e", "c", "t", "s", " ", ":">>,
       <<"E", "X", "P", "E", "R", "I", "E", "N", "C", "E", ":">>,
       <<"P", "r", "o", "j", "e", "c", "t">>,
       <<"E", "m", "p", "l", "o", "y", "m", "e", "n", "t", " ", "H", "i",
         "s", "t", "o", "r", "y">>,
       <<"P", "R", " ", "O", " ", "F", " ", "E", " ", "S", " ", "S", "I",
         " ", "O", " ", "N", "A", " ", "L", " ", " ", " ", "E", " ", "X",
         " ", "P", " ", "E", " ", "R", " ", "I", " ", "E", " ", "N", " ",
         "C", " ", "E">>,
       <<"W", "o", "r", "k", " ", "e", "x", "p", "e", "r", "i", "e", "n",
         "c", "e">>,
       <<"P", "R", "O", "F", "E", "S", "S", "I", "O", "N", "A", "L", " ",
         "E", "X", "P", "E", "R", "I", "E", "N", "C", "E", " ", AnyChar>>,
       <<"P", " ", "R", " ", "O", " ", "J", " ", "E", " ", "C", " ", "T",
         " ", "S">>,
       <<"J", "O", "B", "S">>,
       <<"W", " ", "O", " ", "R", " ", "K", " ", "E", " ", "X", " ", "P",
         " ", "E", " ", "R", " ", "I", " ", "E", " ", "N", " ", "C", " ",
         "E">>,
       <<"W", "o", "r", "k", " ", "H", "i", "s", "t", "o", "r", "y">>,
       <<"P", "R", "O", "J", "E", "C", "T">> >>

\* its terminator alternatives, the last alternative "$" apart
ExperienceTerminators ==
    << <<"S", "K", "I", "L", "L", "S">>,
       <<"S", "k", "i", "l", "l", "s">>,
       <<"P", "r", "o", "f", "e", "s", "s", "i", "o", "n", "a", "l", " ",
         "S", "k", "i", "l", "l", "s">>,
       <<"P", "e", "r", "s", "o", "n", "a", "l", " ", "Q", "u", "a", "l",
         "i", "t", "i", "e", "s", ":">>,
       <<"P", "E", "R", "S", "O", "N", "A", "L", " ", "Q", "U", "A", "L",
         "I", "T", "I", "E", "S", ":">>,
       <<"P", "e", "r", "s", "o", "n", "a", "l", " ", "Q", "u", "a", "l",
         "i", "t", "i", "e", "s">>,
       <<"P", "E", "R", "S", "O", "N", "A", "L", " ", "Q", "U", "A", "L",
         "I", "T", "I", "E", "S">>,
       <<"E", "d", "u", "c", "a", "t", "i", "o", "n">>,
       <<"E", "D", "U", "C", "A", "T", "I", "O", "N">>,
       <<"E", "X", "T", "R", "A", "C", "U", "R", "R", "I", "C", "U", "L",
         "A", "R", " ", "A", "C", "T", "I", "V", "I", "T", "I", "E", "S">>,
       <<"L", "a", "n", "g", "u", "a", "g", "e", "s">>,
       <<"C", "e", "r", "t", "i", "f", "i", "c", "a", "t", "i", "o", "n">>,
       <<"C", "E", "R", "T", "I", "F", "I", "C", "A", "T", "E">>,
       <<"A", "d", "d", "i", "t", "i", "o", "n", "a", "l", " ", "I", "n",
         "f", "o", "r", "m", "a", "t", "i", "o", "n", ":">>,
       <<"A", "C", "H", "I", "E", "V", "E", "M", "E", "N", "T", "S">>,
       <<"E", " ", "D", " ", "U", " ", "C", " ", "A", " ", "T", "I", " ",
         "O", " ", "N">>,
       <<"I", "n", "t", "e", "r", "e", "s", "t", "s">>,
       <<"T", "E", "C", "H", "N", "I", "C", "A", "L", " ", "S", "K", "I",
         "L", "L", "S">>,
       <<"S", "K", "I", "L", "L", "S", ":">>,
       <<"T", "R", "A", "I", "N", "I", "N", "G">>,
       <<"P", " ", "R", " ", "O", " ", "J", " ", "E", " ", "C", " ", "T",
         " ", "S">>,
       <<"S", " ", "K", " ", "I", " ", "L", " ", "L", " ", "S">>,
       <<"S", "T", "R", "E", "N", "G", "T", "H", "S">> >>

\* the start alternatives of SUMMARY_PATTERN, in pattern order; the first
\* one is preceded by \b
SummaryStarts ==
    << <<"S", "u", "m", "m", "a", "r", "y">>,
       <<"A", "B", "O", "U", "T">>,
       <<"P", "R", "O", "F", "I", "L", "E">>,
       <<"S", "U", "M", "M", "A", "R", "Y">>,
       <<"I", "N", "T", "R", "O", "D", "U", "C", "T", "I", "O", "N">>,
       <<"H", "E", "A", "D", "L", "I", "N", "E">>,
       <<"P", "R", "O", "F", "E", "S", "S", "I", "O", "N", "A", "L", " ",
         "S", "U", "M", "M", "A", "R", "Y">>,
       <<"A", "b", "o", "u", "t", " ", "M", "e">>,
       <<"P", "R", "O", "F", "E", "S", "S", "I", "O", "N", "A", "L", " ",
         "S", "U", "M", "M", "A", "R", "Y", ":">>,
       <<"S", "y", "n", "o", "p", "s", "i", "s">>,
       <<"P", "r", "o", "U+FB01", "l", "e", " ", "S", "u", "m", "m", "a",
         "r", "y", ":">>,
       <<"P", "r", "o", "f", "i", "l", "e", " ", "S", "u", "m", "m", "a",
         "r", "y", ":">>,
       <<"M", "y", " ", "P", "r", "o", "j", "e", "c", "t", "s">>,
       <<"S", "u", "m", "m", "a", "r", "y">>,
       <<"S", "U", "M", "M", "A", "R", "Y">>,
       <<"S", "u", "m", "m", "a", "r", "y", ":">>,
       <<"C", "A", "R", "E", "E", "R", " ", "O", "B", "J", "E", "C", "T",
         "I", "V", "E", " ", ":">>,
       <<"O", "b", "j", "e", "c", "t", "i", "v", "e", "s", " ", ":">>,
       <<"P", "r", "o", "j", "e", "c", "t", "s", ":">>,
       <<"O", "b", "j", "e", "c", "t", "i", "v", "e", "s">>,
       <<"O", "b", "j", "e", "c", "t", "i", "v", "e">>,
       <<"P", "r", "o", "f", "i", "l", "e">>,
       <<"S", "U", "M", "M", "A", "R", "Y", " ", "O", "F", " ", "E", "X",
         "P", "E", "R", "I", "E", "N", "C", "E">>,
       <<"O", "B", "J", "E", "C", "T", "I", "V", "E">>,
       <<"C", "A", "R", "E", "E", "R", " ", "S", "U", "M", "M", "A", "R",
         "Y", ":">>,
       <<"A", "B", "O", "U", "T", " ", "M", "E">>,
       <<"O", "b", "j", "e", "c", "t", "i", "v", "e", ":">>,
       <<"P", " ", "R", " ", "O", " ", "F", " ", "E", " ", "S", " ", "S",
         " ", "I", " ", "O", " ", "N", " ", "A", " ", "L", " ", " ", " ",
         "S", " ", "U", " ", "M", " ", "M", " ", "A", " ", "R", " ", "Y">>,
       <<"C", "A", "R", "E", "E", "R", " ", "O", "B", "J", "E", "C", "T",
         "I", "V", "E", ":">>,
       <<"P", " ", "R", " ", "O", " ", "F", " ", "I", " ", "L", " ", "E">>,
       <<"P", "r", "o", "f", "i", "l", "e", " ", "S", "u", "m", "m", "a",
         "r", "y", " ", "&", " ", "S", "k", "i", "l", "l", "s">>,
       <<"C", "A", "R", "E", "E", "R", " ", "O", "B", "J", "E", "C", "T",
         "I", "V", "E">> >>

\* its terminator alternatives, the last alternative "$" apart
SummaryTerminators ==
    << <<"C", "A", "R", "E", "E", "R", " ", "O", "B", "J", "E", "C", "T",
         "I", "V", "E">>,
       <<"O", "B", "J", "E", "C", "T", "I", "V", "E">>,
       <<"G", "O", "A", "L">>,
       <<"E", "d", "u", "c", "a", "t", "i", "o", "n">>,
       <<"E", "X", "P", "E", "R", "I", "E", "N", "C", "E", " ", "S", "U",
         "M", "M", "A", "R", "Y">>,
       <<"C", "u", "r", "r", "e", "n", "t", " ", "C", "o", "m", "p", "a",
         "n", "y", " ", "D", "e", "t", "a", "i", "l", "s">>,
       <<"P", "r", "o", "j", "e", "c", "t", "s", " ", "U", "n", "d", "e",
         "r", "t", "a", "k", "e", "n">>,
       <<"E", "x", "p", "e", "r", "i", "e", "n", "c", "e">>,
       <<"S", "k", "i", "l", "l", "s">>,
       <<"C", "o", "n", "t", "a", "c", "t">>,
       <<"T", "e", "c", "h", "n", "i", "c", "a", "l", " ", "S", "k", "i",
         "l", "l", "s">>,
       <<"T", "e", "c", "h", "n", "i", "c", "a", "l", " ", "E", "x", "p",
         "e", "r", "t", "i", "s", "e", ":">>,
       <<"P", "r", "o", "f", "e", "s", "s", "i", "o", "n", "a", "l", " ",
         "Q", "u", "a", "l", "i", "f", "i", "c", "a", "t", "i", "o", "n">>,
       <<"E", "M", "P", "L", "O", "Y", "M", "E", "N", "T", " ", "H", "I",
         "S", "T", "O", "R", "Y">>,
       <<"C", "o", "m", "p", "l", "e", "t", "e", "d">>,
       <<"E", "D", "U", "C", "A", "T", "I", "O", "N">>,
       <<"P", "r", "o", "j", "e", "c", "t", "s">>,
       <<"S", "K", "I", "L", "L", "S">>,
       <<"L", "a", "n", "g", "u", "a", "g", "e", "s">>,
       <<"C", "u", "r", "r", "e", "n", "t">>,
       <<"P", "R", "O", "F", "E", "S", "S", "I", "O", "N", "A", "L">>,
       <<"W", "O", "R", "K", " ", "E", "X", "P", "E", "R", "I", "E", "N",
         "C", "E">>,
       <<"P", "R", "O", "F", "E", "S", "S", "I", "O", "N", "A", "L", " ",
         "E", "X", "P", "E", "R", "I", "E", "N", "C", "E">>,
       <<"T", " ", "E", " ", "C", " ", "H", " ", "N", " ", "I", " ", "C",
         " ", "A", " ", "L", " ", " ", " ", "S", " ", "K", " ", "I", " ",
         "L", " ", "L", " ", "S">>,
       <<"C", " ", "O", " ", "N", " ", "T", " ", "A", " ", "C", " ", "T",
         " ", "M", " ", "E">>,
       <<"W", "o", "r", "k", " ", "E", "x", "p", "e", "r", "i", "e", "n",
         "c", "e">>,
       <<"E", " ", "D", " ", "U", " ", "C", " ", "A", " ", "T", " ", "I",
         " ", "O", " ", "N">>,
       <<"P", "r", "o", "f", "e", "s", "s", "i", "o", "n", "a", "l", " ",
         "E", "x", "p", "e", "r", "i", "e", "n", "c", "e">>,
       <<"S", "k", "i", "l", "l", "s", " ", "&", " ", "A", "b", "i", "l",
         "i", "t", "i", "e", "s">>,
       <<"Q", "U", "A", "L", "I", "F", "I", "C", "A", "T", "I", "O", "N",
         " ", "D", "E", "T", "A", "I", "L", "S">> >>

\* "$" without re.MULTILINE, at position q: the end of the text, or just
\* before a line break that ends the text
DollarAt(s, q) == q = Len(s) + 1 \/ (q = Len(s) /\ s[q] = NL)

\* (?=\n(?:SKILLS|...|$)) holds at position p
ExperienceLookahead(s, p) ==
    /\ p >= 1 /\ p <= Len(s) /\ s[p] = NL
    /\ \/ \E t \in DOMAIN ExperienceTerminators :
             AliasAt(s, ExperienceTerminators[t], p + 1)
       \/ DollarAt(s, p + 1)

\* (?=\n(?:CAREER OBJECTIVE|...|$)\b) holds at position p
SummaryLookahead(s, p) ==
    /\ p >= 1 /\ p <= Len(s) /\ s[p] = NL
    /\ \/ \E t \in DOMAIN SummaryTerminators :
             /\ AliasAt(s, SummaryTerminators[t], p + 1)
             /\ WordBoundary(s, p + 1 + Len(SummaryTerminators[t]))
       \/ (DollarAt(s, p + 1) /\ WordBoundary(s, p + 1))

\* a variant whose group is greedy: it ends at the last lookahead position
SearchExperienceGreedy(s) ==
    LET ahead == {p \in DOMAIN s : ExperienceLookahead(s, p)}
        \* where group 2 begins for a match starting at i, or 0
        GroupStart(i) ==
            LET as == {a \in DOMAIN ExperienceStarts :
                          /\ AliasAt(s, ExperienceStarts[a], i)
                          /\ i + Len(ExperienceStarts[a]) <= Len(s)
                          /\ s[i + Len(ExperienceStarts[a])] = NL
                          /\ \E p \in ahead :
                                p >= i + Len(ExperienceStarts[a]) + 1}
            IN  IF as = {} THEN 0
                ELSE i + Len(ExperienceStarts[Min(as)]) + 1
        starts == {i \in DOMAIN s : GroupStart(i) > 0}
    IN  IF starts = {} THEN None
        ELSE LET g == GroupStart(Min(starts))
                 p == Max({q \in ahead : q >= g})
             IN  Some(Slice(s, g, p - 1))

\* EXPERIENCE_TEXT_PATTERN.search(s)[2], optional.  From the leftmost start
\* at which an alias followed by a line break matches and a lookahead
\* position follows, the lazy group ends at the first lookahead position.
SearchExperience(s) ==
    LET ahead == {p \in DOMAIN s : ExperienceLookahead(s, p)}
        \* where group 2 begins for a match starting at i, or 0
        GroupStart(i) ==
            LET as == {a \in DOMAIN ExperienceStarts :
                          /\ AliasAt(s, ExperienceStarts[a], i)
                          /\ i + Len(ExperienceStarts[a]) <= Len(s)
                          /\ s[i + Len(ExperienceStarts[a])] = NL
                          /\ \E p \in ahead :
                                p >= i + Len(ExperienceStarts[a]) + 1}
            IN  IF as = {} THEN 0
                ELSE i + Len(ExperienceStarts[Min(as)]) + 1
        starts == {i \in DOMAIN s : GroupStart(i) > 0}
    IN  IF starts = {} THEN None
        ELSE LET g == GroupStart(Min(starts))
                 p == Min({q \in ahead : q >= g})
             IN  Some(Slice(s, g, p - 1))

\* SUMMARY_PATTERN.search(s)[2], optional.  At a start the alternatives are
\* tried in order, each with the optional line break taken and then not.
SearchSummary(s) ==
    LET ahead == {p \in DOMAIN s : SummaryLookahead(s, p)}
        Fits(a, i) ==
            /\ AliasAt(s, SummaryStarts[a], i)
            /\ a = 1 => WordBoundary(s, i)
        \* group 2's start with alternative a at i: after the line break if
        \* there is one and a lookahead position follows it, else after the
        \* alias if a lookahead position follows that; 0 when neither
        GroupStartOf(a, i) ==
            LET e == i + Len(SummaryStarts[a])
            IN  IF e <= Len(s) /\ s[e] = NL /\ \E p \in ahead : p >= e + 1
                THEN e + 1
                ELSE IF \E p \in ahead : p >= e THEN e ELSE 0
        GroupStart(i) ==
            LET as == {a \in DOMAIN SummaryStarts :
                          Fits(a, i) /\ GroupStartOf(a, i) > 0}
            IN  IF as = {} THEN 0 ELSE GroupStartOf(Min(as), i)
        starts == {i \in DOMAIN s : GroupStart(i) > 0}
    IN  IF starts = {} THEN None
        ELSE LET g == GroupStart(Min(starts))
                 p == Min({q \in ahead : q >= g})
             IN  Some(Slice(s, g, p - 1))


(***************************************************************************)
(* Masking and the section extractors (main_config.py 37, 106-143,         *)
(* 168-198)                                                                *)
(***************************************************************************)
EmailMask == <<"<", "e", "m", "a", "i", "l", " ", "m", "a", "s", "k", "e", "d", ">">>
PhoneMask == <<"<", "p", "h", "o", "n", "e", " ", "n", "o", ".", " ",
               "m", "a", "s", "k", "e", "d", ">">>
LinkMask == <<"<", "l", "i", "n", "k", " ", "m", "a", "s", "k", "e", "d", ">">>
DotCom == <<".", "c", "o", "m">>

\* the first positions of the lines of s
LineStarts(s) ==
    (IF s = <<>> THEN {} ELSE {1})
    \cup {i \in 2..Len(s) : s[i - 1] = NL}

\* the last position of the line that starts at i, its line break included
LineEnd(s, i) ==
    LET n == RunLen(s, i, {s[k] : k \in DOMAIN s} \ {NL})
    IN  IF i + n <= Len(s) THEN i + n ELSE Len(s)

\* [m.group(0) for m in re.finditer(LINK_PATTERN, text)]: every line that
\* holds ".com", with its line break
RECURSIVE LinksFrom(_, _)
LinksFrom(s, i) ==
    IF i > Len(s) THEN <<>>
    ELSE LET e == LineEnd(s, i)
             line == SubSeq(s, i, e)
         IN  (IF Contains(line, DotCom) THEN <<line>> ELSE <<>>)
             \o LinksFrom(s, e + 1)

\* lines 120-122
RECURSIVE MaskLinks(_, _)
MaskLinks(s, links) ==
    IF links = <<>> THEN s
    ELSE MaskLinks(Replace(s, Head(links), LinkMask), Tail(links))

\* lines 124-134 and 180-190: the email and the phone that were extracted
\* are replaced by their placeholders
MaskContacts(s, email, phone) ==
    IF ~IsNone(email) /\ The(email) # <<>> /\ ~IsNone(phone) /\ The(phone) # <<>>
    THEN Replace(Replace(s, The(phone), PhoneMask), The(email), EmailMask)
    ELSE IF ~IsNone(email) /\ The(email) # <<>>
         THEN Replace(s, The(email), EmailMask)
         ELSE IF ~IsNone(phone) /\ The(phone) # <<>>
              THEN Replace(s, The(phone), PhoneMask)
              ELSE s

Backslash == "\\"
Quote == "\""

\* codecs.decode(s, "unicode-escape") from position i, for a text in which
\* a backslash stands only before n, a backslash, a quote or U, or at the
\* end: "ERROR" marks a UnicodeDecodeError (a truncated \UXXXXXXXX escape,
\* a backslash at the end of the string).  A character outside ASCII is
\* decoded to characters outside ASCII and is kept as it is.
RECURSIVE DecodeFrom(_, _)
DecodeFrom(s, i) ==
    IF i > Len(s) THEN <<>>
    ELSE IF s[i] # Backslash THEN <<s[i]>> \o DecodeFrom(s, i + 1)
    ELSE IF i = Len(s) \/ s[i + 1] = "U" THEN <<"ERROR">>
    ELSE IF s[i + 1] = "n" THEN <<NL>> \o DecodeFrom(s, i + 2)
    ELSE IF s[i + 1] \in {Backslash, Quote}
         THEN <<s[i + 1]>> \o DecodeFrom(s, i + 2)
    ELSE <<s[i]>> \o DecodeFrom(s, i + 1)

UnicodeEscapeDecode(s) ==
    LET d == DecodeFrom(s, 1)
    IN  IF "ERROR" \in Range(d) THEN Raise("UnicodeDecodeError") ELSE Return(d)

\* lines 116-134: the text with its links, its email and its phone masked
MaskedSummaryText(text) ==
    MaskContacts(MaskLinks(text, LinksFrom(text, 1)),
                 extract_email(text), extract_phone(text))

\* lines 138-139: the stripped group 2 of the match, "" without a match
SummaryOf(match) == IF IsNone(match) THEN <<>> ELSE Strip(The(match))

\* lines 140-142, for the decoded summary
Unquoted(decoded) ==
    IF Raised(decoded) THEN decoded
    ELSE IF Value(decoded) = <<>> THEN Return(None)
    ELSE Return(Some(Replace(Replace(Value(decoded),
                                     <<Quote, Backslash, Quote>>, <<>>),
                             <<Backslash, Quote, Quote>>, <<>>)))

\* lines 139-143
DecodedSummary(summary) ==
    IF summary = <<>> THEN Return(None)
    ELSE Unquoted(UnicodeEscapeDecode(summary))

\* extract_summary_text(text_content): a result holding an optional str
extract_summary_text(text) ==
    DecodedSummary(SummaryOf(SearchSummary(Strip(MaskedSummaryText(text)))))

\* lines 194-198
ExperienceOf(match) == IF IsNone(match) THEN None ELSE Some(Strip(The(match)))

\* extract_experience_text(text_content): optional str
extract_experience_text(text) ==
    ExperienceOf(SearchExperience(
        MaskContacts(text, extract_email(text), extract_phone(text))))


(***************************************************************************)
(* extract_name (main.py 308-364) and NAME_PATTERN (main_config.py 43-45)  *)
(***************************************************************************)
W_linkedin == <<"l", "i", "n", "k", "e", "d", "i", "n">>
VercelApp == <<".", "v", "e", "r", "c", "e", "l", ".", "a", "p", "p">>
W_Resume == <<"R", "e", "s", "u", "m", "e">>
WordChars == Digits \cup Letters \cup {"_", LigatureFi}

\* re.sub(r"\bLinkedIn\b", "", s, flags=re.IGNORECASE), from position i
RECURSIVE SubLinkedIn(_, _)
SubLinkedIn(s, i) ==
    IF i > Len(s) THEN <<>>
    ELSE IF TitleMatchAt(s, W_linkedin, i)
         THEN SubLinkedIn(s, i + Len(W_linkedin))
         ELSE <<s[i]>> \o SubLinkedIn(s, i + 1)

\* the length of the match of \b\w+\.vercel\.app\b (IGNORECASE) at i, or 0
VercelLenAt(s, i) ==
    LET n == RunLen(s, i, WordChars)
    IN  IF /\ n > 0
           /\ WordBoundary(s, i)
           /\ OccursAt(LowerStr(s), VercelApp, i + n)
           /\ WordBoundary(s, i + n + Len(VercelApp))
        THEN n + Len(VercelApp) ELSE 0

\* re.sub(r"\b\w+\.vercel\.app\b", "", s, flags=re.IGNORECASE), from i
RECURSIVE SubVercel(_, _)
SubVercel(s, i) ==
    IF i > Len(s) THEN <<>>
    ELSE IF VercelLenAt(s, i) > 0 THEN SubVercel(s, i + VercelLenAt(s, i))
         ELSE <<s[i]>> \o SubVercel(s, i + 1)

\* "\n".join(line.strip() for line in s.split("\n"))
RECURSIVE StripLines(_)
StripLines(s) ==
    LET breaks == {k \in DOMAIN s : s[k] = NL}
    IN  IF breaks = {} THEN Strip(s)
        ELSE Strip(Slice(s, 1, Min(breaks) - 1)) \o <<NL>>
             \o StripLines(Slice(s, Min(breaks) + 1, Len(s)))

\* lines 324-329: the loop body runs once per matched designation, so the
\* email and the colons are removed only when a designation matched
RECURSIVE CleanDesignations(_, _, _)
CleanDesignations(cleaned_text, designations, email) ==
    IF designations = <<>> THEN cleaned_text
    ELSE LET a == Strip(Replace(Replace(cleaned_text, Head(designations), <<>>),
                                <<EnDash>>, <<>>))
             b == IF ~IsNone(email)
                  THEN Strip(Replace(Replace(a, The(email), <<>>),
                                     <<":">>, <<>>))
                  ELSE a
         IN  CleanDesignations(StripLines(b), Tail(designations), email)

NameLabel == <<"N", "a", "m", "e", ":">>
Honorifics == << <<"M", "r", "s", ".">>, <<"M", "r", ".">>,
                 <<"M", "i", "s", "s">>, <<"M", "s", ".">> >>

\* the length of the match of [A-Za-z]+(?: [A-Za-z]+)* at v (greedy)
RECURSIVE WordsLen(_, _)
WordsLen(s, v) ==
    LET n == RunLen(s, v, Letters)
    IN  IF n = 0 THEN 0
        ELSE IF /\ v + n <= Len(s) /\ s[v + n] = " "
                /\ RunLen(s, v + n + 1, Letters) > 0
             THEN n + 1 + WordsLen(s, v + n + 1)
             ELSE n

\* ([A-Za-z]+)\s*([A-Za-z]+(?: [A-Za-z]+)*) for the run of n letters at u,
\* the white space after the run ending before v: <<group 1, group 2>>, or
\* <<>> when it does not match.  Group 1 takes the whole run when white
\* space and a letter follow it; otherwise it gives its last letter back
\* to group 2.
NameGroups(s, u, n, v) ==
    IF n = 0 THEN <<>>
    ELSE IF v > u + n /\ RunLen(s, v, Letters) > 0
         THEN <<Slice(s, u, u + n - 1), Slice(s, v, v + WordsLen(s, v) - 1)>>
         ELSE IF n >= 2
              THEN <<Slice(s, u, u + n - 2),
                     Slice(s, u + n - 1, u + n - 2 + WordsLen(s, u + n - 1))>>
              ELSE <<>>

\* the same for the run of n letters at u
NameRun(s, u, n) == NameGroups(s, u, n, AfterSpaces(s, u + n))
\* the same for the letters at u
NameLetters(s, u) == NameRun(s, u, RunLen(s, u, Letters))
\* \s*([A-Za-z]+)\s*([A-Za-z]+(?: [A-Za-z]+)*) at t
NameGroupsAt(s, t) == NameLetters(s, AfterSpaces(s, t))

\* the first alternative if it matched, else the second
OrElse(first, second) == IF Len(first) > 0 THEN first ELSE second

\* the length of the honorific at r, or 0
HonorificLenAt(s, r) ==
    LET hs == {h \in DOMAIN Honorifics : OccursAt(s, Honorifics[h], r)}
    IN  IF hs = {} THEN 0 ELSE Len(Honorifics[Min(hs)])

\* (?:Mrs\.|Mr\.|Miss|Ms\.)? and the groups at r: with the honorific first
NameCoreAt(s, r) ==
    OrElse(IF HonorificLenAt(s, r) > 0
           THEN NameGroupsAt(s, r + HonorificLenAt(s, r)) ELSE <<>>,
           NameGroupsAt(s, r))

\* (?:Name:\s*)? and the rest at q: with the label first
NameAfterPrefix(s, q) ==
    OrElse(IF OccursAt(s, NameLabel, q)
           THEN NameCoreAt(s, AfterSpaces(s, q + Len(NameLabel))) ELSE <<>>,
           NameCoreAt(s, q))

\* the number of characters of the first line, which "." can match
FirstLineLen(s) == RunLen(s, 1, {s[k] : k \in DOMAIN s} \ {NL})

\* the positions at which the lazy ".*?" can stop with the rest matching
NameStarts(s) ==
    {q \in 1..(FirstLineLen(s) + 1) : Len(NameAfterPrefix(s, q)) > 0}

NameFrom(s, starts) ==
    IF starts = {} THEN <<>> ELSE NameAfterPrefix(s, Min(starts))

\* NAME_PATTERN.search(s): <<match[1], match[2]>> or <<>>.  "^" anchors the
\* match at the start; the lazy ".*?" gives up as few characters of the
\* first line as it can.
SearchName(s) == NameFrom(s, NameStarts(s))

\* a variant that takes a first group of two letters for a first name
NameDecisionFromTwo(match) ==
    IF Len(match) = 0 THEN <<<<>>, <<>>>>
    ELSE IF /\ Len(Strip(match[1])) >= 2 /\ Len(Strip(match[1])) < 50
            /\ Len(Strip(match[2])) > 2
         THEN <<Strip(match[1]),
                IF NL \in Range(match[2]) THEN <<>> ELSE Strip(match[2])>>
         ELSE IF Len(Strip(match[2])) <= 2
              THEN <<Strip(match[1]) \o Strip(match[2]), <<>>>>
              ELSE <<<<>>, <<>>>>

\* lines 344-364
NameDecision(match) ==
    IF Len(match) = 0 THEN <<<<>>, <<>>>>
    ELSE IF /\ Len(Strip(match[1])) > 2 /\ Len(Strip(match[1])) < 50
            /\ Len(Strip(match[2])) > 2
         THEN <<Strip(match[1]),
                IF NL \in Range(match[2]) THEN <<>> ELSE Strip(match[2])>>
         ELSE IF Len(Strip(match[2])) <= 2
              THEN <<Strip(match[1]) \o Strip(match[2]), <<>>>>
              ELSE <<<<>>, <<>>>>

\* lines 339-340
RemovePhone(cleaned_text, phone) ==
    IF IsNone(phone) THEN cleaned_text
    ELSE Strip(Replace(Replace(cleaned_text, The(phone), <<>>), <<"+">>, <<>>))

\* lines 338-340
WithoutPhone(cleaned_text) == RemovePhone(cleaned_text, extract_phone(cleaned_text))

\* lines 332-340: the text NAME_PATTERN is applied to
NameText(cleaned_text) ==
    WithoutPhone(Replace(Replace(SubVercel(SubLinkedIn(cleaned_text, 1), 1),
                                 <<"|">>, <<" ">>),
                         W_Resume, <<>>))

\* the text after lines 320-329, for the designations that matched
CleanedText(text, designations) ==
    CleanDesignations(text, designations, extract_email(text))

\* lines 320-364, for what check_and_collect_designation_ids returned
NameWith(text, found) ==
    IF Raised(found) THEN found
    ELSE Return(NameDecision(SearchName(NameText(
             CleanedText(text, Value(found).sorted_designations)))))

\* extract_name(text_content, json_data): a result holding (name, surname)
extract_name(text, data) ==
    NameWith(text, check_and_collect_designation_ids(text, data))


(***************************************************************************)
(* check_titles_and_extract_info (main.py 381-456).  A file is NoFile or   *)
(* Some(content); the content of a record file is <<>> for a file of zero  *)
(* bytes and <<record>> for a JSON document.                               *)
(***************************************************************************)
\* x or "" for an optional str
OrEmpty(o) == IF IsNone(o) THEN <<>> ELSE The(o)

\* line 407
FullName(firstName, lastName) ==
    Replace(Strip(firstName \o <<" ">> \o lastName), <<NL>>, <<" ">>)

\* the dict of lines 424-447; skills is a list here
ExtractedInfo(names, email, phone, skills, found, duration, summary, work_experience) ==
    [name |-> Title(FullName(names[1], names[2])),
     email |-> OrEmpty(email),
     phone |-> OrEmpty(phone),
     skills |-> SortedStrings(Range(skills)),
     designation |-> found.sorted_designations,
     experience |->
         << [title |-> found.result_title,
             amount_of_experience |-> duration.numeric_value,
             duration_string |->
                 OrEmpty(remove_unrecognized_characters(
                             Some(duration.duration_string))),
             summary |-> OrEmpty(remove_unrecognized_characters(summary))] >>,
     work_experience |->
         OrEmpty(remove_unrecognized_characters(work_experience))]

\* what a call leaves: the exception that left it ("" for a normal
\* return), the exception it caught, the record file afterwards
Leaves(e, caught, record) == [exc |-> e, caught |-> caught, record_file |-> record]

\* lines 402-451, for the text that was read and the results of the calls
\* of lines 402, 410, 414 and 419.  The record file is opened for writing
\* (line 422) before the dict is built, so the TypeError of set(None) in
\* line 428 leaves it empty.
ExtractInfo(file_content, record, names, summary, skills, found) ==
    IF Raised(names) THEN Leaves(names.exc, "", record)
    ELSE IF Raised(summary) THEN Leaves(summary.exc, "", record)
    ELSE IF Raised(skills) THEN Leaves(skills.exc, "", record)
    ELSE IF Raised(found) THEN Leaves(found.exc, "", record)
    ELSE IF IsNone(Value(skills)) THEN Leaves("TypeError", "", Some(<<>>))
    ELSE Leaves("", "", Some(<<ExtractedInfo(
             Value(names),
             extract_email(file_content),
             extract_phone(file_content),
             The(Value(skills)),
             Value(found),
             extract_experience_duration(file_content),
             Value(summary),
             extract_experience_text(file_content))>>))

\* a variant that opens the record file before it reads the text file
check_titles_record_first(file, record, json_skills, json_designations) ==
    IF file = NoFile
    THEN Leaves("", "FileNotFoundError", Some(<<>>))
    ELSE ExtractInfo(The(file), record,
                     extract_name(The(file), json_designations),
                     extract_summary_text(The(file)),
                     check_and_collect_skills(The(file), json_skills),
                     check_and_collect_designation_ids(The(file),
                                                       json_designations))

\* check_titles_and_extract_info(text_file_path, json_skills,
\* json_designations) with the text file and the record file as they are
check_titles_and_extract_info(file, record, json_skills, json_designations) ==
    IF file = NoFile
    THEN Leaves("", "FileNotFoundError", record)
    ELSE ExtractInfo(The(file), record,
                     extract_name(The(file), json_designations),
                     extract_summary_text(The(file)),
                     check_and_collect_skills(The(file), json_skills),
                     check_and_collect_designation_ids(The(file),
                                                       json_designations))


(***************************************************************************)
(* Inputs: words, reference entries, texts.                                *)
(***************************************************************************)
W_React == <<"R", "e", "a", "c", "t">>
W_react == <<"r", "e", "a", "c", "t">>
W_Node == <<"N", "o", "d", "e">>
W_Manager == <<"M", "a", "n", "a", "g", "e", "r">>
W_manager == <<"m", "a", "n", "a", "g", "e", "r">>
W_Engineer == <<"E", "n", "g", "i", "n", "e", "e", "r">>
W_engineer == <<"e", "n", "g", "i", "n", "e", "e", "r">>
W_one == <<"1">>
W_two == <<"2">>

S_React == << <<K_title, W_React>> >>
S_react == << <<K_title, W_react>> >>
S_Node == << <<K_title, W_Node>> >>
\* the same title with one more field, in both key orders
S_ReactId == << <<K_id, W_one>>, <<K_title, W_React>> >>
S_ReactIdRev == << <<K_title, W_React>>, <<K_id, W_one>> >>
\* malformed: no title
S_NoTitle == << <<K_id, W_two>> >>

D_Engineer == << <<K_designation, W_Engineer>> >>
D_Manager == << <<K_designation, W_Manager>> >>
D_manager == << <<K_designation, W_manager>> >>
\* malformed: no designation
D_NoDesignation == << <<K_id, W_two>> >>

\* all sequences over S of length at most n
SeqsUpTo(S, n) == UNION {[1..k -> S] : k \in 0..n}

\* the title of every entry that has the key
TitlesOf(data, key) == [i \in DOMAIN data |-> GetOr(data[i], key, <<>>)]


(***************************************************************************)
(* Direct calls of save_url_as_json_async on one cache file.               *)
(***************************************************************************)
Files == {"skills-collection.json", "designations-collection.json"}

MaxBody == 2
SyncEntries == {S_React, S_ReactId, S_ReactIdRev}
SyncBodies == {Bytes(fmt, data) : fmt \in {"compact", "indent2"},
                                  data \in SeqsUpTo(SyncEntries, MaxBody)}
NonOkStatus == {204, 404, 503}
SyncResponses ==
    {TransportError} \cup {Answer(st, <<>>) : st \in NonOkStatus}
    \cup {Answer(200, b) : b \in SyncBodies}

NoCall(f) == [output_file |-> f, made |-> FALSE, resp |-> TransportError,
              before |-> NoFile, writes |-> 0, ret |-> None]

\* the invocations that are followed step by step; none has started
Procs == {1, 2}
NotStarted == [pc |-> "start", resp |-> TransportError, downloaded_hash |-> None,
               local_hash |-> None, ret |-> None, exc |-> ""]
NoTasks == [p \in Procs |-> NotStarted]
\* no series of calls is followed
NoSeries == [content |-> NoFile, fetched |-> FALSE]

\* the pipeline at rest
PipeIdle ==
    /\ pc = "idle"
    /\ lines = None
    /\ text_file = NoFile
    /\ acquired_skill_data = None
    /\ acquired_designation_data = None
    /\ attempts = 0
    /\ record_file = NoFile
    /\ outcome = ""
    /\ requests = 0
    /\ response = None
    /\ tasks = NoTasks

\* no direct call of a function
FnIdle ==
    /\ fn = "none"
    /\ text_content = <<>>
    /\ json_data = None
    /\ json_aux = None
    /\ result = None

InitSync ==
    /\ \E f \in Files, c \in {NoFile} \cup {Some(b) : b \in SyncBodies} :
          /\ cache = [g \in Files |-> IF g = f THEN c ELSE NoFile]
          /\ call = NoCall(f)
    /\ PipeIdle
    /\ last_ok = NoSeries
    /\ FnIdle

\* the call record of a call on file f that saw resp and did r
CallOf(f, resp, r) ==
    [output_file |-> f, made |-> TRUE, resp |-> resp, before |-> cache[f],
     writes |-> r.writes, ret |-> r.ret]

\* the effect on the cache file f of a call that saw resp and did r
Synced(f, resp, r) ==
    /\ cache' = [cache EXCEPT ![f] = r.file]
    /\ call' = CallOf(f, resp, r)

\* await save_url_as_json_async(url, output_file), the server answering resp
SyncCall(resp) ==
    /\ Synced(call.output_file, resp,
              save_url_as_json_async(cache[call.output_file], resp))
    /\ UNCHANGED <<pc, lines, text_file, acquired_skill_data,
                   acquired_designation_data, attempts, record_file,
                   outcome, requests, response, fnVars, tasks, last_ok>>

NextSync == \E resp \in SyncResponses : SyncCall(resp)

SpecSync == InitSync /\ [][NextSync]_vars


(***************************************************************************)
(* Claims about save_url_as_json_async (SpecSync).                         *)
(***************************************************************************)
Got200 == call.made /\ call.resp.kind = "response" /\ call.resp.status_code = 200
GotNon2xx ==
    call.made /\ call.resp.kind = "response"
    /\ call.resp.status_code \notin 200..299
GotTransportError == call.made /\ call.resp.kind = "RequestError"

\* the response bytes hash to what the cache file held before the call
SameAsCacheBefore ==
    /\ Got200
    /\ call.before # NoFile
    /\ Md5(The(call.resp.content)) = Md5(The(call.before))

\* C1: on a 200 response whose bytes hash to the hash of the cache file as
\* it was before the call, the call does not write the cache file and
\* returns the list loaded from the cache; the new content is persisted
\* only if the hashes differ.
C1_NoWriteWhenHashEqual ==
    SameAsCacheBefore =>
        /\ call.writes = 0
        /\ call.ret = Some(remove_duplicates(JsonLoad(The(call.before))))

\* C2: on a non-2xx response or a transport error the call returns the
\* deduplicated content of the cache file if that file exists, and None
\* only when no cache file exists.
C2_FallbackOnEveryFailure ==
    (GotNon2xx \/ GotTransportError) =>
        IF call.before # NoFile
        THEN call.ret = Some(remove_duplicates(JsonLoad(The(call.before))))
        ELSE call.ret = None

\* the list a call's result was taken from: the response body on a 200,
\* the cache file otherwise
SourceOfReturn ==
    IF Got200 THEN JsonLoad(The(call.resp.content))
    ELSE JsonLoad(The(call.before))

NoTwoWithSameHash(data) ==
    \A i, j \in DOMAIN data : ItemHash(data[i]) = ItemHash(data[j]) => i = j

\* C7: every list a call returns, on every return path, holds no two entries
\* with the same canonical (key-sorted) content hash, and every entry of the
\* source list is kept up to that hash: entries that differ in any field,
\* even with the same title, are both in the result.
C7_ReturnedListsAreDeduplicated ==
    (call.made /\ call.ret # None) =>
        LET data == The(call.ret)
        IN  /\ NoTwoWithSameHash(data)
            /\ {ItemHash(x) : x \in Range(data)}
                   = {ItemHash(x) : x \in Range(SourceOfReturn)}
            /\ Range(data) \subseteq Range(SourceOfReturn)

\* a fallback call that returns a cache file holding a repeated entry, and
\* a 200 call that returns two entries with the same title
C7_Witness ==
    \/ /\ GotNon2xx
       /\ call.ret # None
       /\ Len(The(call.ret)) < Len(SourceOfReturn)
    \/ /\ Got200
       /\ call.ret = Some(<<S_React, S_ReactId>>)


(***************************************************************************)
(* Direct calls of the pure functions: Init draws the arguments, the       *)
(* action applies the function.                                            *)
(***************************************************************************)
PipeUnused ==
    /\ cache = [g \in Files |-> NoFile]
    /\ call = NoCall("skills-collection.json")
    /\ PipeIdle
    /\ last_ok = NoSeries

\* ---- remove_duplicates
MaxEntries == 3
DedupEntries == {S_React, S_react, S_ReactId, S_ReactIdRev, S_Node}

InitDedup ==
    /\ fn = "none"
    /\ text_content = <<>>
    /\ json_data \in {Some(data) : data \in SeqsUpTo(DedupEntries, MaxEntries)}
    /\ json_aux = None
    /\ result = None
    /\ PipeUnused

CallRemoveDuplicates ==
    /\ fn = "none"
    /\ fn' = "remove_duplicates"
    /\ result' = remove_duplicates(The(json_data))
    /\ UNCHANGED <<text_content, json_data, json_aux, pipeVars>>

SpecDedup == InitDedup /\ [][CallRemoveDuplicates]_vars

\* the positions of data that hold the first entry with their hash
FirstOccurrences(data) ==
    {i \in DOMAIN data :
        \A j \in 1..(i - 1) : ItemHash(data[j]) # ItemHash(data[i])}

\* the k-th smallest element of a set of numbers
Kth(S, k) == CHOOSE i \in S : Cardinality({j \in S : j <= i}) = k

\* C6: remove_duplicates is idempotent, and its result keeps the first
\* occurrence of each distinct entry, in the original relative order.
C6_DedupIdempotentFirstSeen ==
    fn = "remove_duplicates" =>
        LET data == The(json_data)
            firsts == FirstOccurrences(data)
        IN  /\ remove_duplicates(result) = result
            /\ Len(result) = Cardinality(firsts)
            /\ \A k \in DOMAIN result : result[k] = data[Kth(firsts, k)]

\* a list whose duplicate (in the other key order) of the first entry comes
\* after a different entry: two entries are kept, one is dropped
C6_Witness ==
    /\ fn = "remove_duplicates"
    /\ json_data = Some(<<S_ReactId, S_Node, S_ReactIdRev>>)
    /\ result = <<S_ReactId, S_Node>>

\* ---- check_and_collect_designation_ids
MaxTokens == 4
MaxDesignations == 2
Space == <<" ">>
DesignationTokens == {W_Manager, W_engineer, Space, <<"s">>}
DesignationEntries == {D_Engineer, D_Manager, D_manager}

\* the texts made of at most n tokens
TextsOf(tokens, n) == {Concat(ts) : ts \in SeqsUpTo(tokens, n)}

InitDesignation ==
    /\ fn = "none"
    /\ text_content \in TextsOf(DesignationTokens, MaxTokens)
    /\ json_data \in {Some(data) :
                        data \in SeqsUpTo(DesignationEntries, MaxDesignations)}
    /\ json_aux = None
    /\ result = None
    /\ PipeUnused

CallDesignationIds ==
    /\ fn = "none"
    /\ fn' = "check_and_collect_designation_ids"
    /\ result' = check_and_collect_designation_ids(text_content, json_data)
    /\ UNCHANGED <<text_content, json_data, json_aux, pipeVars>>

SpecDesignation == InitDesignation /\ [][CallDesignationIds]_vars

\* title occurs in text as a whole word, case-insensitively, at offset k
WholeWordAt(text, title, k) ==
    /\ k + Len(title) <= Len(text)
    /\ LowerStr(Slice(text, k + 1, k + Len(title))) = LowerStr(title)
    /\ (k = 0 \/ ~IsWord(text[k]))
    /\ (k + Len(title) = Len(text) \/ ~IsWord(text[k + Len(title) + 1]))

Occurrences(text, title) == {k \in 0..Len(text) : WholeWordAt(text, title, k)}

\* the number of positions of s that hold x
Count(s, x) == Cardinality({i \in DOMAIN s : s[i] = x})

SkillsField(skills) ==
    IF Raised(skills) THEN skills
    ELSE IF IsNone(Value(skills)) THEN Raise("TypeError")
         ELSE Return(SortedStrings(Range(The(Value(skills)))))

MaxSkills == 3
MaxSkillTokens == 3
SkillTokens == {W_React, W_Node, Space, <<"s">>}
SkillEntries == {S_React, S_react, S_Node}

InitSkills ==
    /\ fn = "none"
    /\ text_content \in TextsOf(SkillTokens, MaxSkillTokens)
    /\ json_data \in {Some(data) : data \in SeqsUpTo(SkillEntries, MaxSkills)}
    /\ json_aux = None
    /\ result = None
    /\ PipeUnused

CallSkillsField ==
    /\ fn = "none"
    /\ fn' = "skills"
    /\ result' = SkillsField(check_and_collect_skills(text_content, json_data))
    /\ UNCHANGED <<text_content, json_data, json_aux, pipeVars>>

SpecSkills == InitSkills /\ [][CallSkillsField]_vars

\* C9: the skills field is the deduplicated, lexicographically sorted
\* sequence of the matched skill titles, so that the reference titles
\* [React, react, Node] matched against a text containing the words "React"
\* and "Node" give exactly [Node, React].
C9_SkillsFieldExample ==
    (/\ fn = "skills"
     /\ TitlesOf(The(json_data), K_title) = <<W_React, W_react, W_Node>>
     /\ Occurrences(text_content, W_React) # {}
     /\ Occurrences(text_content, W_Node) # {})
        => result = Return(<<W_Node, W_React>>)

\* ---- extract_phone
MaxPhoneTokens == 4
W_phone == <<"9", "8", "7", "6", "5", "4", "3", "2", "1", "0">>
W_pincode == <<"4", "0", "0", "0", "0", "1">>
W_91 == <<"9", "1">>
PhoneTokens == {<<"+">>, W_91, Space, <<"-">>, W_phone, W_pincode, <<"x">>}

InitPhone ==
    /\ fn = "none"
    /\ text_content \in TextsOf(PhoneTokens, MaxPhoneTokens)
    /\ json_data = None
    /\ json_aux = None
    /\ result = None
    /\ PipeUnused

CallExtractPhone ==
    /\ fn = "none"
    /\ fn' = "extract_phone"
    /\ result' = extract_phone(text_content)
    /\ UNCHANGED <<text_content, json_data, json_aux, pipeVars>>

SpecPhone == InitPhone /\ [][CallExtractPhone]_vars

\* C10: extract_phone renders a number with a country code as the code
\* digits, a space and the 10 digits, and a bare number as its 10 digits:
\* "+91 9876543210" gives "91 9876543210", "9876543210" gives "9876543210".
C10_PhoneRendering ==
    fn = "extract_phone" =>
        /\ text_content = <<"+">> \o W_91 \o Space \o W_phone
               => result = Some(W_91 \o Space \o W_phone)
        /\ text_content = W_phone => result = Some(W_phone)

(***************************************************************************)
(* The /extract endpoint: extract_data (main.py 479-528), extract_text     *)
(* (531-590), send_json_to_api (201-213).  One document path; requests run *)
(* one after the other.                                                    *)
(***************************************************************************)
SkillsFile == "skills-collection.json"
DesignationsFile == "designations-collection.json"

W_John == <<"J", "o", "h", "n">>
W_Doe == <<"D", "o", "e">>
L_name == W_John \o Space \o W_Doe
L_job == W_Engineer \o Space \o W_React

\* extracted_data["content"]: what extract_text_line_by_line returned, None
\* when the PDF could not be read
Documents == {None, Some(<<>>), Some(<<L_name>>), Some(<<L_name, L_job>>)}

MaxRequests == 2
MaxAttempts == 2

SkillBodies == {<<>>, <<S_React>>, <<S_React, S_React>>, <<S_NoTitle>>}
DesignationBodies == {<<>>, <<D_Engineer>>, <<D_NoDesignation>>}
ResponsesWith(bodies) ==
    {TransportError, Answer(503, <<>>)}
    \cup {Answer(200, Bytes("compact", b)) : b \in bodies}
FilesWith(bodies) == {NoFile} \cup {Some(Bytes("indent2", b)) : b \in bodies}

Init ==
    /\ cache \in {[f \in Files |-> IF f = SkillsFile THEN s ELSE d] :
                     s \in FilesWith(SkillBodies),
                     d \in FilesWith(DesignationBodies)}
    /\ call = NoCall(SkillsFile)
    /\ PipeIdle
    /\ last_ok = NoSeries
    /\ FnIdle

JsonResponse(status, body) == Some([status |-> status, body |-> body])

\* extract_data up to its call of extract_text (lines 497-504, 511-518)
Request(content) ==
    /\ pc = "idle"
    /\ requests < MaxRequests
    /\ requests' = requests + 1
    /\ lines' = content
    /\ pc' = "write_text"
    /\ outcome' = ""
    /\ response' = None
    /\ acquired_skill_data' = None
    /\ acquired_designation_data' = None
    /\ attempts' = 0
    /\ UNCHANGED <<cache, text_file, record_file, call, fnVars, tasks, last_ok>>

\* extract_data with neither a file nor a pdf_url (lines 524-525)
BadRequest ==
    /\ pc = "idle"
    /\ requests < MaxRequests
    /\ requests' = requests + 1
    /\ response' = JsonResponse(400, <<>>)
    /\ UNCHANGED <<cache, pc, lines, text_file, acquired_skill_data,
                   acquired_designation_data, attempts, record_file, call,
                   outcome, fnVars, tasks, last_ok>>

\* lines 548-554: what is written for the lines
RECURSIVE WrittenText(_)
WrittenText(content) ==
    IF content = <<>> THEN <<>>
    ELSE LET line == remove_unrecognized_characters(
                         Some(Replace(Head(content), <<PrivateDot>>, <<>>)))
         IN  (IF IsNone(line) THEN <<>> ELSE The(line) \o <<NL>>)
             \o WrittenText(Tail(content))

\* lines 542-554: the text file is opened for writing, then the content is
\* iterated; a content of None raises TypeError with the file left empty
WriteText ==
    /\ pc = "write_text"
    /\ IF IsNone(lines)
       THEN /\ text_file' = Some(<<>>)
            /\ outcome' = "TypeError"
            /\ pc' = "respond"
       ELSE /\ text_file' = Some(WrittenText(The(lines)))
            /\ outcome' = outcome
            /\ pc' = "fetch_skill"
    /\ UNCHANGED <<cache, lines, acquired_skill_data,
                   acquired_designation_data, attempts, record_file, call,
                   requests, response, fnVars, tasks, last_ok>>

\* lines 562-564, for what the call did: item["title"] raises KeyError for
\* an entry without a title
SkillFetched(resp, r) ==
    /\ Synced(SkillsFile, resp, r)
    /\ acquired_skill_data' = r.ret
    /\ IF /\ ~IsNone(r.ret)
          /\ \E i \in DOMAIN The(r.ret) : K_title \notin Keys(The(r.ret)[i])
       THEN outcome' = "KeyError" /\ pc' = "respond"
       ELSE outcome' = outcome /\ pc' = "poll"

\* lines 559-564: the skill list is fetched once
FetchSkill(resp) ==
    /\ pc = "fetch_skill"
    /\ SkillFetched(resp, save_url_as_json_async(cache[SkillsFile], resp))
    /\ UNCHANGED <<lines, text_file, acquired_designation_data, attempts,
                   record_file, requests, response, fnVars, tasks, last_ok>>

\* lines 567-571, for what the call did
DesignationPolled(resp, r) ==
    /\ Synced(DesignationsFile, resp, r)
    /\ acquired_designation_data' = r.ret
    /\ pc' = IF IsNone(r.ret) THEN "sleep" ELSE "assemble"

\* lines 567-571: one turn of the while loop
PollDesignation(resp) ==
    /\ pc = "poll"
    /\ DesignationPolled(resp,
           save_url_as_json_async(cache[DesignationsFile], resp))
    /\ attempts' = IF attempts < MaxAttempts THEN attempts + 1 ELSE attempts
    /\ UNCHANGED <<lines, text_file, acquired_skill_data, record_file,
                   outcome, requests, response, fnVars, tasks, last_ok>>

\* lines 572-573: asyncio.sleep(2), then the loop condition again
Sleep ==
    /\ pc = "sleep"
    /\ pc' = "poll"
    /\ UNCHANGED <<cache, lines, text_file, acquired_skill_data,
                   acquired_designation_data, attempts, record_file, call,
                   outcome, requests, response, fnVars, tasks, last_ok>>

\* line 562-564
skill_titles ==
    IF IsNone(acquired_skill_data) THEN <<>>
    ELSE [i \in DOMAIN The(acquired_skill_data) |->
             Get(The(acquired_skill_data)[i], K_title)]
\* lines 575-577
designation_titles == TitlesOf(The(acquired_designation_data), K_designation)

\* a variant of the gate that is content with one of the two lists
TitlesPresentEither == skill_titles # <<>> \/ designation_titles # <<>>

\* line 579: if skill_titles and designation_titles
TitlesPresent == skill_titles # <<>> /\ designation_titles # <<>>

\* the effect of check_titles_and_extract_info having run with result r
Assembled(r) ==
    /\ record_file' = r.record_file
    /\ outcome' = IF r.exc = "" THEN "assembled" ELSE r.exc

\* lines 579-590: the record is assembled only if both lists of titles are
\* not empty
Assemble ==
    /\ pc = "assemble"
    /\ IF TitlesPresent
       THEN Assembled(check_titles_and_extract_info(
                          text_file, record_file, acquired_skill_data,
                          acquired_designation_data))
       ELSE /\ record_file' = record_file
            /\ outcome' = "skipped"
    /\ pc' = "respond"
    /\ UNCHANGED <<cache, lines, text_file, acquired_skill_data,
                   acquired_designation_data, attempts, call, requests,
                   response, fnVars, tasks, last_ok>>

Returned == outcome \in {"assembled", "skipped"}

\* lines 506-509 and 520-523, and what the framework answers when an
\* exception other than httpx.RequestError leaves extract_data
Respond ==
    /\ pc = "respond"
    /\ response' =
          IF ~Returned THEN JsonResponse(500, <<>>)
          ELSE IF record_file = NoFile THEN JsonResponse(404, <<>>)
          ELSE IF The(record_file) = <<>> THEN JsonResponse(500, <<>>)
          ELSE JsonResponse(200, The(record_file))
    /\ pc' = "idle"
    /\ UNCHANGED <<cache, lines, text_file, acquired_skill_data,
                   acquired_designation_data, attempts, record_file, call,
                   outcome, requests, fnVars, tasks, last_ok>>

Next ==
    \/ \E content \in Documents : Request(content)
    \/ BadRequest
    \/ WriteText
    \/ \E resp \in ResponsesWith(SkillBodies) : FetchSkill(resp)
    \/ \E resp \in ResponsesWith(DesignationBodies) : PollDesignation(resp)
    \/ Sleep
    \/ Assemble
    \/ Respond

Spec == Init /\ [][Next]_vars

\* the event loop resumes the coroutine: a turn of the polling loop that
\* can be taken is eventually taken
FairSpec ==
    /\ Init /\ [][Next]_vars
    /\ WF_vars(Sleep)
    /\ WF_vars(\E resp \in ResponsesWith(DesignationBodies) : PollDesignation(resp))

(***************************************************************************)
(* Claims about the polling loop and the pipeline (Spec, FairSpec).        *)
(***************************************************************************)
InPollingLoop == pc \in {"poll", "sleep"}

\* C3: the designation polling loop of extract_text is bounded: whatever
\* the fetches answer, a call that entered the loop eventually leaves it.
C3_PollingLoopEnds == InPollingLoop ~> ~InPollingLoop

\* the skill fetch of the current request failed with no cache file to fall
\* back on, and extract_text went on to the designation list and got it
SkillListUnavailable ==
    /\ pc = "respond"
    /\ attempts > 0
    /\ IsNone(acquired_skill_data)

\* the record file holds a record
HoldsRecord(file) == file # NoFile /\ The(file) # <<>>

\* C4: if the fetch of a reference list fails and no cache file exists, the
\* pipeline still completes without raising and produces a record for the
\* document, whose skills field is the empty sequence.
C4_RecordWithoutReferenceList ==
    SkillListUnavailable =>
        /\ outcome = "assembled"
        /\ HoldsRecord(record_file)
        /\ The(record_file)[1].skills = <<>>

(***************************************************************************)
(* Direct calls of check_titles_and_extract_info: Init draws the text      *)
(* file and the two reference lists, the action makes the call.            *)
(***************************************************************************)
MaxRecordLines == 2
L_summary == <<"S", "u", "m", "m", "a", "r", "y">>
L_years == <<"3", " ", "y", "e", "a", "r", "s">>
RecordLines == {L_name \o <<NL>>, L_job \o <<NL>>, L_summary \o <<NL>>,
                L_years \o <<NL>>}
RecordSkillLists ==
    {None, Some(<<>>), Some(<<S_React>>), Some(<<S_React, S_Node>>),
     Some(<<S_NoTitle>>)}
RecordDesignationLists ==
    {None, Some(<<>>), Some(<<D_Engineer>>), Some(<<D_NoDesignation>>)}

InitRecord ==
    /\ fn = "none"
    /\ text_content \in TextsOf(RecordLines, MaxRecordLines)
    /\ json_data \in RecordSkillLists
    /\ json_aux \in RecordDesignationLists
    /\ result = None
    /\ text_file \in {NoFile, Some(text_content)}
    /\ record_file = NoFile
    /\ cache = [g \in Files |-> NoFile]
    /\ call = NoCall(SkillsFile)
    /\ pc = "idle"
    /\ lines = None
    /\ acquired_skill_data = None
    /\ acquired_designation_data = None
    /\ attempts = 0
    /\ outcome = ""
    /\ requests = 0
    /\ response = None
    /\ tasks = NoTasks
    /\ last_ok = NoSeries

\* the effect of the call having done r
CheckedTitles(r) ==
    /\ result' = Some(r)
    /\ record_file' = r.record_file

\* await check_titles_and_extract_info(path, json_data, json_aux)
CallCheckTitles ==
    /\ fn = "none"
    /\ fn' = "check_titles_and_extract_info"
    /\ CheckedTitles(check_titles_and_extract_info(
                         text_file, record_file, json_data, json_aux))
    /\ UNCHANGED <<text_content, json_data, json_aux, cache, pc, lines,
                   text_file, acquired_skill_data, acquired_designation_data,
                   attempts, call, outcome, requests, response,
                   tasks, last_ok>>

SpecRecord == InitRecord /\ [][CallCheckTitles]_vars

RecordKeys == {"name", "email", "phone", "skills", "designation",
               "experience", "work_experience"}
ExperienceKeys == {"title", "amount_of_experience", "duration_string",
                   "summary"}

\* all seven keys, and experience a list of exactly one entry of four keys
FullyShaped(record) ==
    /\ DOMAIN record = RecordKeys
    /\ Len(record.experience) = 1
    /\ DOMAIN record.experience[1] = ExperienceKeys

\* C5: for any text of the text file and any skill and designation lists,
\* empty and absent ones included, check_titles_and_extract_info does not
\* raise and writes a record with all seven keys whose experience is a list
\* of exactly one entry with the keys title, amount_of_experience,
\* duration_string and summary.
C5_AlwaysWritesFullRecord ==
    (fn = "check_titles_and_extract_info" /\ text_file # NoFile) =>
        /\ The(result).exc = ""
        /\ HoldsRecord(record_file)
        /\ FullyShaped(The(record_file)[1])

(***************************************************************************)
(* Direct calls of extract_phone on texts that hold pincodes and phone     *)
(* numbers.                                                                *)
(***************************************************************************)
MaxPincodeTokens == 5
W_pincode2 == <<"5", "6", "0", "0", "0", "1">>
\* a phone number whose digits 3 to 8 read like the pincode 400001
W_phone2 == <<"9", "8", "4", "0", "0", "0", "0", "1", "1", "2">>
PincodeTokens == {W_pincode, W_pincode2, W_phone, W_phone2, Space}

InitPincode ==
    /\ fn = "none"
    /\ text_content \in TextsOf(PincodeTokens, MaxPincodeTokens)
    /\ json_data = None
    /\ json_aux = None
    /\ result = None
    /\ PipeUnused

SpecPincode == InitPincode /\ [][CallExtractPhone]_vars

\* the maximal runs of digits of s that are n digits long
DigitRuns(s, n) ==
    {Slice(s, i, i + n - 1) :
        i \in {j \in DOMAIN s : /\ j = 1 \/ ~IsDigit(s[j - 1])
                                /\ RunLen(s, j, Digits) = n}}

\* every run of digits of s is a pincode or a phone number
OnlyPincodesAndPhones(s) ==
    \A i \in DOMAIN s :
        (IsDigit(s[i]) /\ (i = 1 \/ ~IsDigit(s[i - 1])))
            => RunLen(s, i, Digits) \in {PincodeLen, PhoneLen}

\* C11: for a text that holds 6-digit pincode runs and one 10-digit phone
\* number, extract_phone returns the 10 phone digits unaltered, with no
\* digit of a pincode in the result.
C11_PincodeNeverInPhone ==
    (/\ fn = "extract_phone"
     /\ OnlyPincodesAndPhones(text_content)
     /\ DigitRuns(text_content, PincodeLen) # {}
     /\ Cardinality(DigitRuns(text_content, PhoneLen)) = 1)
        => \E phone \in DigitRuns(text_content, PhoneLen) : result = Some(phone)

(***************************************************************************)
(* Direct calls of the section extractors on texts made of lines, each     *)
(* line ending with its line break as extract_text writes it.              *)
(***************************************************************************)
MaxProjectLines == 5
L_PROJECTS == <<"P", "R", "O", "J", "E", "C", "T", "S">>
L_SKILLS == <<"S", "K", "I", "L", "L", "S">>
ProjectLines == {L_PROJECTS \o <<NL>>, L_SKILLS \o <<NL>>, <<"a", NL>>,
                 <<" ", "b", NL>>}

InitProjects ==
    /\ fn = "none"
    /\ text_content \in TextsOf(ProjectLines, MaxProjectLines)
    /\ json_data = None
    /\ json_aux = None
    /\ result = None
    /\ PipeUnused

\* the two sections of a text
Sections(text) ==
    [summary |-> extract_summary_text(text),
     work_experience |-> extract_experience_text(text)]

CallSections ==
    /\ fn = "none"
    /\ fn' = "sections"
    /\ result' = Sections(text_content)
    /\ UNCHANGED <<text_content, json_data, json_aux, pipeVars>>

SpecProjects == InitProjects /\ [][CallSections]_vars

\* the first positions of the lines of s that read exactly as word
LinesReading(s, word) ==
    {i \in DOMAIN s : /\ i = 1 \/ s[i - 1] = NL
                      /\ OccursAt(s, word \o <<NL>>, i)}

\* the first position after the first PROJECTS header line
AfterFirstHeader(s) == Min(LinesReading(s, L_PROJECTS)) + Len(L_PROJECTS) + 1

\* the SKILLS lines that come after a line break of the section
SkillsLinesAfter(s, g) == {k \in LinesReading(s, L_SKILLS) : k > g}

MaxSectionLines == 3
L_EXPERIENCE == <<"E", "X", "P", "E", "R", "I", "E", "N", "C", "E">>
L_link == <<"x", ".", "c", "o", "m">>
L_email == <<"a", "@", "b", ".", "c", "o">>
SectionLines == {L_summary \o <<NL>>, L_EXPERIENCE \o <<NL>>,
                 L_SKILLS \o <<NL>>, <<"a", NL>>, L_link \o <<NL>>,
                 L_email \o <<NL>>, W_phone \o <<NL>>}

InitSections ==
    /\ fn = "none"
    /\ text_content \in TextsOf(SectionLines, MaxSectionLines)
    /\ json_data = None
    /\ json_aux = None
    /\ result = None
    /\ PipeUnused

SpecSections == InitSections /\ [][CallSections]_vars

\* the first position after the first line of s that reads as header
AfterFirst(s, header) == Min(LinesReading(s, header)) + Len(header) + 1

\* s holds no email, no phone number and no link
NoContacts(s) ==
    /\ IsNone(extract_email(s))
    /\ IsNone(SearchPhone(s))
    /\ ~Contains(s, DotCom)

\* the rest of the document after the first header line, trimmed
RestAfter(s, header) == Strip(Slice(s, AfterFirst(s, header), Len(s)))

\* C13: for both section extractors, whenever a start alias occurs in the
\* text the result is not None, and if no terminator alias follows the
\* header the capture extends to the end of the document; the result is
\* None only when no start alias matched.
C13_SectionToEndOfDocument ==
    fn = "sections" =>
        /\ LinesReading(text_content, L_summary) # {}
              => /\ ~Raised(result.summary)
                 /\ ~IsNone(Value(result.summary))
        /\ LinesReading(text_content, L_EXPERIENCE) # {}
              => ~IsNone(result.work_experience)
        /\ (/\ LinesReading(text_content, L_summary) # {}
            /\ NoContacts(text_content)
            /\ SkillsLinesAfter(text_content,
                                AfterFirst(text_content, L_summary)) = {})
              => result.summary
                     = Return(Some(RestAfter(text_content, L_summary)))
        /\ (/\ LinesReading(text_content, L_EXPERIENCE) # {}
            /\ NoContacts(text_content)
            /\ SkillsLinesAfter(text_content,
                                AfterFirst(text_content, L_EXPERIENCE)) = {})
              => result.work_experience
                     = Some(RestAfter(text_content, L_EXPERIENCE))

\* an optional str that holds no email, no phone number and no link
Masked(o) == IsNone(o) \/ NoContacts(The(o))

\* C14: masking precedes section capture: the summary and the
\* work_experience that the section extractors return hold no substring
\* that matches the email pattern or the phone pattern, and no link (".com").
C14_SectionsHoldNoContacts ==
    fn = "sections" =>
        /\ Raised(result.summary) \/ Masked(Value(result.summary))
        /\ Masked(result.work_experience)

(***************************************************************************)
(* Claims about reference entries and the cache file (Spec, SpecSync).     *)
(***************************************************************************)
\* an acquired list that holds an entry without the key
HasEntryWithout(data, key) ==
    /\ ~IsNone(data)
    /\ \E i \in DOMAIN The(data) : key \notin Keys(The(data)[i])

\* C15: a reference entry that lacks its field (a skill without "title", a
\* designation without "designation") is skipped: no exception aborts
\* extract_text or the matchers it runs, and the call returns.
C15_MalformedEntrySkipped ==
    (/\ pc = "respond"
     /\ \/ HasEntryWithout(acquired_skill_data, K_title)
        \/ HasEntryWithout(acquired_designation_data, K_designation))
        => Returned

\* C16: after a call that received a 200 response, the cache file holds the
\* deduplicated array of the response, pretty-printed.
C16_CacheHoldsDeduplicatedArray ==
    Got200 =>
        cache[call.output_file]
            = Some(JsonDumpIndent2(
                       remove_duplicates(JsonLoad(The(call.resp.content)))))

(***************************************************************************)
(* Claims about the order of the steps of extract_text (Spec).             *)
(***************************************************************************)
\* a reference list that was acquired in this call and is not empty
Acquired(data) == ~IsNone(data) /\ The(data) # <<>>

\* C17: within one extract_text call, check_titles_and_extract_info starts
\* only after the skill sync and the designation sync have both returned,
\* and only when both returned non-empty lists: it is never run with an
\* absent or empty reference list.
C17_AssemblyWaitsForBothLists ==
    [][(pc = "assemble" /\ pc' = "respond" /\ outcome' # "skipped")
          => /\ attempts > 0
             /\ Acquired(acquired_skill_data)
             /\ Acquired(acquired_designation_data)]_vars

\* check_titles_and_extract_info has run and has written the record
C17_Witness ==
    /\ pc = "respond"
    /\ outcome = "assembled"
    /\ HoldsRecord(record_file)
    /\ Acquired(acquired_skill_data)
    /\ Acquired(acquired_designation_data)

(***************************************************************************)
(* Direct calls of extract_name.  The call's record keeps the text after   *)
(* the cleaning loop, the text NAME_PATTERN was applied to and its match.  *)
(***************************************************************************)
\* the steps of extract_name for what check_and_collect_designation_ids
\* returned
NameSteps(text, found) ==
    [cleaned |-> CleanedText(text, Value(found).sorted_designations),
     pattern_text |->
         NameText(CleanedText(text, Value(found).sorted_designations)),
     match |-> SearchName(NameText(
                   CleanedText(text, Value(found).sorted_designations))),
     names |-> Value(NameWith(text, found))]

CallExtractName ==
    /\ fn = "none"
    /\ fn' = "extract_name"
    /\ result' = NameSteps(text_content,
                     check_and_collect_designation_ids(text_content, json_data))
    /\ UNCHANGED <<text_content, json_data, json_aux, pipeVars>>

\* ---- texts with an email, colons and a designation
MaxCleanTokens == 4
CleanTokens == {W_John, W_Doe, L_email, <<":">>, Space, <<NL>>, W_Engineer}

InitNameClean ==
    /\ fn = "none"
    /\ text_content \in TextsOf(CleanTokens, MaxCleanTokens)
    /\ json_data \in {Some(<<D_Manager>>), Some(<<D_Engineer>>)}
    /\ json_aux = None
    /\ result = None
    /\ PipeUnused

SpecNameClean == InitNameClean /\ [][CallExtractName]_vars

\* every line of s is trimmed
LinesTrimmed(s) ==
    \A i \in DOMAIN s :
        IsSpace(s[i]) /\ s[i] # NL
            => /\ i > 1 /\ s[i - 1] # NL
               /\ i < Len(s) /\ s[i + 1] # NL

\* C18: in extract_name, whenever an email is extracted from the text, the
\* email and every colon are removed from the cleaned text before the name
\* pattern is applied, and the text is normalized to one trimmed line per
\* line, whether or not a designation matched in the document.
C18_EmailAndColonsRemoved ==
    (fn = "extract_name" /\ ~IsNone(extract_email(text_content)))
        => /\ ~Contains(result.cleaned, The(extract_email(text_content)))
           /\ ":" \notin Range(result.cleaned)
           /\ LinesTrimmed(result.cleaned)

\* ---- texts with names of several lengths
MaxNameTokens == 4
W_Jo == <<"J", "o">>
W_Li == <<"L", "i">>
\* a word of 50 letters
W_fifty == [i \in 1..50 |-> "a"]
NameTokens == {W_John, W_Doe, W_Jo, W_Li, Space, <<NL>>, <<"1">>}

InitName ==
    /\ fn = "none"
    /\ text_content \in
          TextsOf(NameTokens, MaxNameTokens)
          \cup {W_fifty \o t : t \in TextsOf(NameTokens, 2)}
          \cup {SubSeq(W_fifty, 1, 49) \o t : t \in TextsOf(NameTokens, 2)}
    /\ json_data = Some(<<D_Engineer>>)
    /\ json_aux = None
    /\ result = None
    /\ PipeUnused

SpecName == InitName /\ [][CallExtractName]_vars

C20_MissingTextFileIsSkipped ==
    (fn = "check_titles_and_extract_info" /\ text_file = NoFile)
        => /\ The(result).exc = ""
           /\ The(result).caught = "FileNotFoundError"
           /\ record_file = NoFile
           /\ cache = [g \in Files |-> NoFile]

\* a call for a document whose text file is missing has returned
C20_Witness ==
    /\ fn = "check_titles_and_extract_info"
    /\ text_file = NoFile
    /\ ~IsNone(json_data)
    /\ The(result).caught = "FileNotFoundError"

(***************************************************************************)
(* Claims about a series of /extract requests (Spec).                      *)
(***************************************************************************)
\* extract_data answered the last request with a record
AnsweredWithRecord ==
    /\ pc = "idle"
    /\ ~IsNone(response)
    /\ The(response).status = 200

\* C21: across any sequence of /extract requests, a record that
\* extract_data returns for a request was written by
\* check_titles_and_extract_info during that request; a request that does
\* not run record assembly does not return a record file left at the path
\* by an earlier request.
C21_RecordIsOfThisRequest ==
    AnsweredWithRecord => outcome = "assembled"



(***************************************************************************)
(* Concurrent invocations of save_url_as_json_async on one cache file.     *)
(* app.run(..., threaded=True) (main.py 593-599) serves each request in a  *)
(* thread of its own, and the function takes no lock, so the file          *)
(* operations of two invocations interleave freely.  A step is one file    *)
(* operation: open() for writing truncates the file at once, and the       *)
(* buffered bytes reach the file, from offset 0, when the with block       *)
(* closes it.                                                              *)
(***************************************************************************)
\* a file of zero bytes, as open(output_file, "wb") or open(..., "w") leaves it
Truncated == [fmt |-> "truncated", data |-> <<>>]
\* what json.load accepts
IsJson(bytes) == bytes.fmt \in {"compact", "indent2"}

\* "key":"value" with a separator of sep bytes
PairLen(kv, sep) == Len(kv[1]) + Len(kv[2]) + 4 + sep
RECURSIVE PairsLen(_, _, _)
PairsLen(item, sep, indent) ==
    IF item = <<>> THEN 0
    ELSE indent + PairLen(Head(item), sep) + PairsLen(Tail(item), sep, indent)
\* one object of a body sent with the separators "," and ":"
CompactItemLen(item) ==
    IF item = <<>> THEN 2 ELSE 2 + PairsLen(item, 1, 0) + (Len(item) - 1)
\* one object as json.dump(..., indent=2) writes it inside a list
IndentItemLen(item) ==
    IF item = <<>> THEN 2
    ELSE 2 + PairsLen(item, 2, 4) + 2 * (Len(item) - 1) + 1 + 3
RECURSIVE ItemsLen(_, _)
ItemsLen(data, fmt) ==
    IF data = <<>> THEN 0
    ELSE (IF fmt = "compact" THEN CompactItemLen(Head(data))
          ELSE 2 + IndentItemLen(Head(data)))
         + ItemsLen(Tail(data), fmt)
\* the number of bytes of a file's content
ByteLen(bytes) ==
    IF bytes.fmt = "truncated" THEN 0
    ELSE IF bytes.data = <<>> THEN 2
    ELSE IF bytes.fmt \in {"compact", "torn-compact"}
         THEN 2 + ItemsLen(bytes.data, "compact") + (Len(bytes.data) - 1)
         ELSE 2 + ItemsLen(bytes.data, "indent2")
              + 2 * (Len(bytes.data) - 1) + 1 + 1

\* new bytes followed by the tail of the longer content they were written
\* over: no JSON text.  It keeps the length of the content underneath.
Torn(old) ==
    [fmt |-> IF old.fmt \in {"compact", "torn-compact"}
             THEN "torn-compact" ELSE "torn-indent2",
     data |-> old.data]
\* the file after a handle opened for writing flushes new at offset 0
\* over what the file holds by then
Overwrite(old, new) ==
    IF ByteLen(new) >= ByteLen(old) THEN new ELSE Torn(old)


RaceFile == "skills-collection.json"
RaceBodies == {Bytes("compact", <<S_React>>), Bytes("compact", <<S_React, S_React>>)}
RaceResponses ==
    {TransportError, Answer(503, <<>>)} \cup {Answer(200, b) : b \in RaceBodies}

InitRace ==
    /\ cache \in {[g \in Files |-> IF g = RaceFile THEN c ELSE NoFile] :
                     c \in {NoFile, Some(Bytes("indent2", <<S_React>>))}}
    /\ call = NoCall(RaceFile)
    /\ PipeIdle
    /\ last_ok = NoSeries
    /\ FnIdle

\* what the steps of an invocation leave alone besides the file
raceFrame == <<pc, lines, text_file, acquired_skill_data,
               acquired_designation_data, attempts, record_file, call,
               outcome, requests, response, last_ok, fnVars>>

At(p, where) == tasks[p].pc = where
Moved(p, t) == tasks' = [tasks EXCEPT ![p] = t]
\* the file operation of a step: the content the cache file is left with
Stored(bytes) == cache' = [cache EXCEPT ![RaceFile] = Some(bytes)]
\* the invocation is left, by return or by an exception nothing catches
Left(t, r) ==
    [t EXCEPT !.pc = "done", !.exc = r.exc,
              !.ret = IF Raised(r) THEN None ELSE Value(r)]

\* json.load(json_file) and remove_duplicates(data) (lines 237-242, 265-270)
LoadDeduplicated(bytes) ==
    IF IsJson(bytes) THEN Return(Some(remove_duplicates(JsonLoad(bytes))))
    ELSE Raise("JSONDecodeError")

\* lines 231-234, 247, 281-283: the answer of client.get(url) arrives
Receive(p, resp) ==
    /\ At(p, "start")
    /\ Moved(p, IF resp.kind = "RequestError"
                THEN Left([tasks[p] EXCEPT !.resp = resp], Return(None))
                ELSE [tasks[p] EXCEPT
                         !.resp = resp,
                         !.pc = IF resp.status_code # 200 THEN "fallback"
                                ELSE "open_wb"])
    /\ UNCHANGED <<cache, raceFrame>>

\* lines 236-246: the fallback reads the file as it is at that moment
Fallback(p) ==
    /\ At(p, "fallback")
    /\ Moved(p, Left(tasks[p],
                     IF cache[RaceFile] = NoFile THEN Return(None)
                     ELSE LoadDeduplicated(The(cache[RaceFile]))))
    /\ UNCHANGED <<cache, raceFrame>>

\* line 249: open(output_file, "wb") truncates the file
OpenWb(p) ==
    /\ At(p, "open_wb")
    /\ Stored(Truncated)
    /\ Moved(p, [tasks[p] EXCEPT !.pc = "close_wb"])
    /\ UNCHANGED raceFrame

\* lines 250-253: the body is written, hashed, and flushed as the block ends
CloseWb(p) ==
    /\ At(p, "close_wb")
    /\ Stored(Overwrite(The(cache[RaceFile]), The(tasks[p].resp.content)))
    /\ Moved(p, [tasks[p] EXCEPT
                    !.pc = "read_hash",
                    !.downloaded_hash = Some(Md5(The(tasks[p].resp.content)))])
    /\ UNCHANGED raceFrame

\* lines 255-262: the hash of the file as it is at that moment
ReadLocalHash(p) ==
    /\ At(p, "read_hash")
    /\ Moved(p, [tasks[p] EXCEPT
                    !.pc = "compare",
                    !.local_hash = IF cache[RaceFile] = NoFile THEN None
                                   ELSE Some(Md5(The(cache[RaceFile])))])
    /\ UNCHANGED <<cache, raceFrame>>

\* lines 264-270: equal hashes, the list is loaded from the file
LoadLocal(p) ==
    /\ At(p, "compare")
    /\ tasks[p].downloaded_hash = tasks[p].local_hash
    /\ Moved(p, Left(tasks[p], LoadDeduplicated(The(cache[RaceFile]))))
    /\ UNCHANGED <<cache, raceFrame>>

\* lines 272-274: different hashes, open(output_file, "w") truncates the file
OpenW(p) ==
    /\ At(p, "compare")
    /\ tasks[p].downloaded_hash # tasks[p].local_hash
    /\ Stored(Truncated)
    /\ Moved(p, [tasks[p] EXCEPT !.pc = "close_w"])
    /\ UNCHANGED raceFrame

\* lines 275-280: the parsed body is dumped with indent=2 and returned
CloseW(p) ==
    /\ At(p, "close_w")
    /\ Stored(Overwrite(The(cache[RaceFile]),
                        JsonDumpIndent2(JsonLoad(The(tasks[p].resp.content)))))
    /\ Moved(p, Left(tasks[p],
                     Return(Some(remove_duplicates(
                                     JsonLoad(The(tasks[p].resp.content)))))))
    /\ UNCHANGED raceFrame

NextRace ==
    \E p \in Procs :
        \/ \E resp \in RaceResponses : Receive(p, resp)
        \/ Fallback(p)
        \/ OpenWb(p)
        \/ CloseWb(p)
        \/ ReadLocalHash(p)
        \/ LoadLocal(p)
        \/ OpenW(p)
        \/ CloseW(p)

SpecRace == InitRace /\ [][NextRace]_vars

\* an invocation that received a 200 response and has been left
Left200(p) ==
    /\ At(p, "done")
    /\ tasks[p].resp.kind = "response"
    /\ tasks[p].resp.status_code = 200

\* C22: under concurrent invocations on one cache file, every invocation
\* that received a 200 response returns the deduplication of a complete
\* response body; it never fails on, or returns, the content of a truncated
\* or partially written cache file.
C22_ReturnsCompleteBody ==
    \A p \in Procs :
        Left200(p) =>
            /\ tasks[p].exc = ""
            /\ tasks[p].ret \in {Some(remove_duplicates(JsonLoad(b))) :
                                    b \in RaceBodies}



(***************************************************************************)
(* A series of calls of save_url_as_json_async on one cache file, one      *)
(* after the other.  last_ok follows, apart from the cache file, what the  *)
(* most recent 200 response held; before the first of them it is the       *)
(* cache file the series found.                                            *)
(***************************************************************************)
InitSeries ==
    /\ \E f \in Files, c \in {NoFile} \cup {Some(b) : b \in SyncBodies} :
          /\ cache = [g \in Files |-> IF g = f THEN c ELSE NoFile]
          /\ call = NoCall(f)
          /\ last_ok = [content |-> c, fetched |-> FALSE]
    /\ PipeIdle
    /\ FnIdle

\* the next call of the series, the server answering resp
SeriesCall(resp) ==
    /\ Synced(call.output_file, resp,
              save_url_as_json_async(cache[call.output_file], resp))
    /\ last_ok' = IF resp.kind = "response" /\ resp.status_code = 200
                  THEN [content |-> resp.content, fetched |-> TRUE]
                  ELSE last_ok
    /\ UNCHANGED <<pc, lines, text_file, acquired_skill_data,
                   acquired_designation_data, attempts, record_file,
                   outcome, requests, response, tasks, fnVars>>

NextSeries == \E resp \in SyncResponses : SeriesCall(resp)

SpecSeries == InitSeries /\ [][NextSeries]_vars

GotNon200 ==
    call.made /\ call.resp.kind = "response" /\ call.resp.status_code # 200
CacheUntouched ==
    call.writes = 0 /\ cache[call.output_file] = call.before

\* C23: in a series of calls on one cache file, a call that gets a non-200
\* response returns the deduplicated body of the most recent earlier 200
\* response (of the cache file the series found, if there was none) and
\* leaves the cache file as it was; a call that fails in transport leaves
\* the cache file as it was too.
C23_FallbackServesLastOk ==
    /\ (GotNon200 /\ last_ok.content # NoFile) =>
           call.ret = Some(remove_duplicates(JsonLoad(The(last_ok.content))))
    /\ (GotNon200 \/ GotTransportError) => CacheUntouched

\* a non-200 call after a 200 call whose body held a duplicate entry
C23_Witness ==
    /\ GotNon200
    /\ last_ok.fetched
    /\ call.before = last_ok.content
    /\ call.ret = Some(remove_duplicates(JsonLoad(The(last_ok.content))))
    /\ The(call.ret) # JsonLoad(The(last_ok.content))


====
